---- MODULE Spec2Model ----
(***************************************************************************)
(* A model of send2teams: the webhook URL validator of the teams package,  *)
(* the configuration validator of the config package and the linear        *)
(* validate -> build -> send -> report run of main.go.                     *)
(*                                                                         *)
(* Go strings are modelled as sequences of one-character strings, so that  *)
(* len(), strings.HasPrefix, slicing and the regular expression are        *)
(* computed character by character as the code computes them.              *)
(***************************************************************************)
EXTENDS Integers, Sequences, FiniteSets, TLC

VARIABLES
    \* teams.ValidateWebhook (src/teams/teams.go)
    vwPC,          \* "input" | "call" | "done"
    webhookURL,    \* the argument of ValidateWebhook
    vwErr,         \* the error ValidateWebhook returned
    \* config.NewConfig and Config.Validate (src/unnamed/part_001)
    cfgPC,         \* "start" | "parsed" | "done"
    cfg,           \* the Config NewConfig fills from the flags
    cfgErr,        \* the error NewConfig returned
    cfgReturned,   \* the *Config NewConfig returned, NilPointer when nil
    cfgUsage,      \* whether flag.Usage() was called
    \* main (src/main.go)
    mainPC,        \* the statement of main about to run, "exited" at the end
    message,       \* TeamsMessage
    webhook,       \* TeamsChannel
    verboseOutput, \* -verbose
    silentOutput,  \* -silent
    convertEOL,    \* -convert-eol
    msgCard,       \* the goteamsnotify.MessageCard main fills
    sent,          \* the calls of sendMessage: webhook URL and card of each
    sendErr,       \* the error sendMessage returned
    logDiscard,    \* whether log.SetOutput(ioutil.Discard) is in effect
    stdout,        \* what was printed to standard output, a tag for each
    stderr,        \* what was printed to standard error, a tag for each
    exitCode,      \* the exit status of the process, -1 while it runs
    \* the text functions of the teams package (src/teams/teams.go)
    textPC,        \* "input" | "call" | "done" | "again"
    textCall,      \* the function called, "none" before the call
    textInput,     \* its argument
    textOutput,    \* the string it returned
    textErr,       \* the error it returned
    textPrev       \* the result of the first of two calls in a row

webhookVars == <<vwPC, webhookURL, vwErr>>

configVars == <<cfgPC, cfg, cfgErr, cfgReturned, cfgUsage>>

mainVars == <<mainPC, message, webhook, verboseOutput, silentOutput, convertEOL,
              msgCard, sent, sendErr, logDiscard, stdout, stderr, exitCode>>

textVars == <<textPC, textCall, textInput, textOutput, textErr, textPrev>>

vars == <<vwPC, webhookURL, vwErr, cfgPC, cfg, cfgErr, cfgReturned, cfgUsage,
          mainPC, message, webhook, verboseOutput, silentOutput, convertEOL,
          msgCard, sent, sendErr, logDiscard, stdout, stderr, exitCode,
          textPC, textCall, textInput, textOutput, textErr, textPrev>>

----------------------------------------------------------------------------
(* Bounds of the model *)

\* id segments of the generated webhook URLs are up to MaxDelta characters
\* longer or shorter than the regular expression asks for
MaxDelta == 1

\* the longest of the short strings over ShortAlphabet given to the validator
MaxShortLen == 3

\* the most -target-url flags of a command line
MaxTargetURLs == 5

\* the largest -retries value of a command line (the smallest is -1)
MaxRetries == 1

\* the largest -retries-delay value of a command line (the smallest is -1)
MaxRetriesDelay == 0

\* the most tokens (characters, line endings, break markers) of a text given
\* to ConvertEOLToBreak
MaxEOLTokens == 3

\* the most white space characters before and after a text given to
\* FormatAsCodeBlock and FormatAsCodeSnippet
MaxPad == 1

\* the most arrays a text given to them is nested in
MaxNesting == 1

\* the longest -sender value
MaxSenderLen == 3

\* the most -target-url and -user-mention flags that are kept
MaxFlagEntries == 2

----------------------------------------------------------------------------
(* Characters and string helpers (the Go strings package) *)

LowerLetters == <<"a","b","c","d","e","f","g","h","i","j","k","l","m","n","o","p","q","r","s","t","u","v","w","x","y","z">>

UpperLetters == <<"A","B","C","D","E","F","G","H","I","J","K","L","M","N","O","P","Q","R","S","T","U","V","W","X","Y","Z">>

Range(s) == { s[i] : i \in 1..Len(s) }

IsLower(c) == c \in Range(LowerLetters)

IsUpper(c) == c \in Range(UpperLetters)

IsLetter(c) == IsLower(c) \/ IsUpper(c)

IsDigit(c) == c \in {"0","1","2","3","4","5","6","7","8","9"}

\* strings.HasPrefix
HasPrefix(s, prefix) ==
    /\ Len(s) >= Len(prefix)
    /\ SubSeq(s, 1, Len(prefix)) = prefix

\* strings.Index for a one-character separator; 1-based, 0 when absent
\* (Go: 0-based, -1 when absent)
Index(s, c) ==
    IF \E i \in 1..Len(s) : s[i] = c
    THEN CHOOSE i \in 1..Len(s) : s[i] = c /\ \A j \in 1..(i-1) : s[j] # c
    ELSE 0

\* strings.LastIndex for a one-character separator; 1-based, 0 when absent
LastIndex(s, c) ==
    IF \E i \in 1..Len(s) : s[i] = c
    THEN CHOOSE i \in 1..Len(s) : s[i] = c /\ \A j \in (i+1)..Len(s) : s[j] # c
    ELSE 0

\* strings.Count for a one-character separator
Count(s, c) == Cardinality({ i \in 1..Len(s) : s[i] = c })

\* s[i:] of Go with the 1-based index of the first character kept
From(s, i) == SubSeq(s, i, Len(s))

\* strings.ToLower on the ASCII letters
ToLowerChar(c) ==
    IF IsUpper(c)
    THEN LowerLetters[CHOOSE i \in 1..Len(UpperLetters) : UpperLetters[i] = c]
    ELSE c

ToLower(s) == [i \in 1..Len(s) |-> ToLowerChar(s[i])]

\* n copies of the characters of pattern, cycled
Fill(pattern, n) == [i \in 1..n |-> pattern[((i - 1) % Len(pattern)) + 1]]

----------------------------------------------------------------------------
(* src/teams/teams.go: constants *)

webhookURLOfficecomPrefix ==
    <<"h","t","t","p","s",":","/","/","o","u","t","l","o","o","k",".","o","f","f","i","c","e",".","c","o","m">>

webhookURLOffice365Prefix ==
    <<"h","t","t","p","s",":","/","/","o","u","t","l","o","o","k",".","o","f","f","i","c","e","3","6","5",".","c","o","m">>

\* the lengths of the id segments of validWebhookURLRegex: {36}@{36}, {32}, {36}
GUIDLen == 36

TokenLen == 32

\* the regular expression as a sequence of one-character matchers; every
\* element of the expression has a fixed width, so an alternative of the
\* optional group (?:365)? is one sequence of matchers
Lit(s) == [i \in 1..Len(s) |-> [k |-> "lit", c |-> s[i]]]

AnyChar == <<[k |-> "any", c |-> "."]>>

IdClass(n) == [i \in 1..n |-> [k |-> "id", c |-> "-"]]

RegexAlternative(with365) ==
    Lit(<<"h","t","t","p","s",":","/","/","o","u","t","l","o","o","k">>)
    \o AnyChar
    \o Lit(<<"o","f","f","i","c","e">>)
    \o (IF with365 THEN Lit(<<"3","6","5">>) ELSE <<>>)
    \o AnyChar
    \o Lit(<<"c","o","m","/","w","e","b","h","o","o","k","/">>)
    \o IdClass(GUIDLen)
    \o Lit(<<"@">>)
    \o IdClass(GUIDLen)
    \o Lit(<<"/","I","n","c","o","m","i","n","g","W","e","b","h","o","o","k","/">>)
    \o IdClass(TokenLen)
    \o Lit(<<"/">>)
    \o IdClass(GUIDLen)

validWebhookURLRegex == { RegexAlternative(FALSE), RegexAlternative(TRUE) }

\* [-a-zA-Z0-9]
IsIdChar(c) == c = "-" \/ IsLetter(c) \/ IsDigit(c)

\* one matcher against one character; "." matches anything but a newline
MatchChar(m, c) ==
    CASE m.k = "lit" -> c = m.c
      [] m.k = "any" -> c # "\n"
      [] m.k = "id"  -> IsIdChar(c)

\* MatchString with the closing $ of the expression left out
MatchStringNoEndAnchor(regex, s) ==
    \E alt \in regex :
        /\ Len(s) >= Len(alt)
        /\ \A i \in 1..Len(alt) : MatchChar(alt[i], s[i])

\* regexp.MatchString(validWebhookURLRegex, s): the expression is anchored
\* at both ends (^ ... $) and $ matches at the end of the text only
MatchString(regex, s) ==
    \E alt \in regex :
        /\ Len(s) = Len(alt)
        /\ \A i \in 1..Len(s) : MatchChar(alt[i], s[i])

----------------------------------------------------------------------------
(* Errors: kind names the fmt.Errorf call, got the value it reports *)

NoError == [kind |-> "nil", got |-> <<>>]

Err(kind) == [kind |-> kind, got |-> <<>>]

ErrGot(kind, got) == [kind |-> kind, got |-> got]

----------------------------------------------------------------------------
(* net/url.Parse, as validateWebhookURLPrefix uses it: whether the URL     *)
(* parses, and the Scheme and Host of the result.  The model covers URLs   *)
(* without "%" escapes and without "[" IPv6 literals (URLAlphabet).        *)

\* stringContainsCTLByte: b < 0x20 || b == 0x7f; these are the control
\* characters a TLA+ string can hold
CTLBytes == {"\n", "\r", "\t", "\f"}

\* getscheme: [ok, scheme, path]
getscheme(rawURL) ==
    LET stops == { i \in 1..Len(rawURL) :
                     /\ ~IsLetter(rawURL[i])
                     /\ ~(i > 1 /\ (IsDigit(rawURL[i]) \/ rawURL[i] \in {"+", "-", "."})) }
    IN  IF stops = {}
        THEN [ok |-> TRUE, scheme |-> <<>>, path |-> rawURL]
        ELSE LET i == CHOOSE k \in stops : \A j \in stops : k <= j
             IN  IF rawURL[i] # ":"
                 THEN [ok |-> TRUE, scheme |-> <<>>, path |-> rawURL]
                 ELSE IF i = 1
                 THEN [ok |-> FALSE, scheme |-> <<>>, path |-> <<>>]
                 ELSE [ok |-> TRUE, scheme |-> SubSeq(rawURL, 1, i - 1),
                       path |-> From(rawURL, i + 1)]

\* validOptionalPort: "" or ":" followed by digits only
validOptionalPort(port) ==
    \/ port = <<>>
    \/ /\ port[1] = ":"
       /\ \A i \in 2..Len(port) : IsDigit(port[i])

\* shouldEscape(c, encodeHost): the characters a host may not hold
shouldEscapeHost(c) ==
    /\ ~IsLetter(c)
    /\ ~IsDigit(c)
    /\ c \notin {"!","$","&","'","(",")","*","+",",",";","=",":","[","]","<",">","\""}
    /\ c \notin {"-","_",".","~"}

\* parseHost: [ok, host]
parseHost(host) ==
    LET i == LastIndex(host, ":")
    IN  IF i # 0 /\ ~validOptionalPort(From(host, i))
        THEN [ok |-> FALSE, host |-> <<>>]
        ELSE IF \E j \in 1..Len(host) : shouldEscapeHost(host[j])
        THEN [ok |-> FALSE, host |-> <<>>]
        ELSE [ok |-> TRUE, host |-> host]

\* validUserinfo
validUserinfo(s) ==
    \A i \in 1..Len(s) :
        \/ IsLetter(s[i])
        \/ IsDigit(s[i])
        \/ s[i] \in {"-",".","_",":","~","!","$","&","'","(",")","*","+",",",";","=","%","@"}

\* parseAuthority: [ok, host]
parseAuthority(authority) ==
    LET i == LastIndex(authority, "@")
        h == IF i = 0 THEN parseHost(authority) ELSE parseHost(From(authority, i + 1))
    IN  IF ~h.ok
        THEN h
        ELSE IF i # 0 /\ ~validUserinfo(SubSeq(authority, 1, i - 1))
        THEN [ok |-> FALSE, host |-> <<>>]
        ELSE h

ParseFailed == [ok |-> FALSE, Scheme |-> <<>>, Host |-> <<>>]

Parsed(scheme, host) == [ok |-> TRUE, Scheme |-> scheme, Host |-> host]

\* parse(rawURL, viaRequest = false)
parse(rawURL) ==
    IF \E i \in 1..Len(rawURL) : rawURL[i] \in CTLBytes
    THEN ParseFailed
    ELSE IF rawURL = <<"*">>
    THEN Parsed(<<>>, <<>>)
    ELSE
    LET gs == getscheme(rawURL)
        scheme == ToLower(gs.scheme)
        q == Index(gs.path, "?")
        \* both branches of the ForceQuery test leave the text before the
        \* first "?" in rest
        rest == IF q = 0 THEN gs.path ELSE SubSeq(gs.path, 1, q - 1)
        colon == Index(rest, ":")
        slash == Index(rest, "/")
        afterSlashes == From(rest, 3)
        cut == Index(afterSlashes, "/")
        authority == IF cut = 0 THEN afterSlashes ELSE SubSeq(afterSlashes, 1, cut - 1)
        a == parseAuthority(authority)
    IN  IF ~gs.ok
        THEN ParseFailed
        ELSE IF ~HasPrefix(rest, <<"/">>) /\ scheme # <<>>
        THEN Parsed(scheme, <<>>)                       \* url.Opaque = rest
        ELSE IF ~HasPrefix(rest, <<"/">>) /\ colon # 0 /\ (slash = 0 \/ colon < slash)
        THEN ParseFailed         \* first path segment cannot contain colon
        ELSE IF /\ (scheme # <<>> \/ ~HasPrefix(rest, <<"/","/","/">>))
                /\ HasPrefix(rest, <<"/","/">>)
        THEN IF a.ok THEN Parsed(scheme, a.host) ELSE ParseFailed
        ELSE Parsed(scheme, <<>>)

\* url.Parse: the fragment is cut off first; without "%" it always parses
Parse(rawURL) ==
    LET hash == Index(rawURL, "#")
    IN  parse(IF hash = 0 THEN rawURL ELSE SubSeq(rawURL, 1, hash - 1))

----------------------------------------------------------------------------
(* src/teams/teams.go: the webhook validator *)

\* validateWebhookLength refusing every URL that is no longer than an
\* outlook.office.com webhook URL
validateWebhookLengthBeyondPattern(url) ==
    IF Len(url) <= Len(webhookURLOfficecomPrefix)
                     + 9 + GUIDLen + 1 + GUIDLen + 17 + TokenLen + 1 + GUIDLen
    THEN ErrGot("TooShort", url)
    ELSE NoError

\* validateWebhookLength comparing with < where the code has <=
validateWebhookLengthStrict(url) ==
    IF Len(url) < Len(webhookURLOfficecomPrefix)
    THEN ErrGot("TooShort", url)
    ELSE NoError

\* validateWebhookLength
validateWebhookLength(url) ==
    IF Len(url) <= Len(webhookURLOfficecomPrefix)
    THEN ErrGot("TooShort", url)
    ELSE NoError

\* validateWebhookURLPrefix comparing the prefixes without regard to case
validateWebhookURLPrefixFold(url) ==
    IF HasPrefix(ToLower(url), webhookURLOfficecomPrefix)
    THEN NoError
    ELSE IF HasPrefix(ToLower(url), webhookURLOffice365Prefix)
    THEN NoError
    ELSE LET u == Parse(url)
         IN  IF ~u.ok
             THEN ErrGot("ParseError", url)
             ELSE ErrGot("UnrecognizedHost", u.Scheme \o <<":","/","/">> \o u.Host)

\* validateWebhookURLPrefix
validateWebhookURLPrefix(url) ==
    IF HasPrefix(url, webhookURLOfficecomPrefix)
    THEN NoError
    ELSE IF HasPrefix(url, webhookURLOffice365Prefix)
    THEN NoError
    ELSE LET u == Parse(url)
         IN  IF ~u.ok
             THEN ErrGot("ParseError", url)
             ELSE ErrGot("UnrecognizedHost", u.Scheme \o <<":","/","/">> \o u.Host)

\* validateWebhookURLRegex
validateWebhookURLRegex(url) ==
    IF ~MatchString(validWebhookURLRegex, url)
    THEN ErrGot("PatternMismatch", url)
    ELSE NoError

\* ValidateWebhook without the prefix check
ValidateWebhookNoPrefixCheck(url) ==
    IF validateWebhookLength(url) # NoError
    THEN validateWebhookLength(url)
    ELSE IF validateWebhookURLRegex(url) # NoError
    THEN validateWebhookURLRegex(url)
    ELSE NoError

\* ValidateWebhook
ValidateWebhook(url) ==
    IF validateWebhookLength(url) # NoError
    THEN validateWebhookLength(url)
    ELSE IF validateWebhookURLPrefix(url) # NoError
    THEN validateWebhookURLPrefix(url)
    ELSE IF validateWebhookURLRegex(url) # NoError
    THEN validateWebhookURLRegex(url)
    ELSE NoError

----------------------------------------------------------------------------
(* The webhook URLs the validator is run on *)

\* what precedes the path
URLHeads == {
    <<>>,
    webhookURLOfficecomPrefix,
    webhookURLOffice365Prefix,
    \* the prefix cut short
    <<"h","t","t","p","s",":","/","/","o","u","t","l","o","o","k",".","o","f","f","i","c","e",".","c","o">>,
    \* other schemes and hosts
    <<"h","t","t","p",":","/","/","o","u","t","l","o","o","k",".","o","f","f","i","c","e",".","c","o","m">>,
    <<"h","t","t","p","s",":","/","/","e","x","a","m","p","l","e",".","c","o","m">>,
    <<"h","t","t","p","s",":","/","/","o","u","t","l","o","o","k","x","o","f","f","i","c","e",".","c","o","m">>,
    <<"H","T","T","P","S",":","/","/","O","u","t","l","o","o","k",".","O","f","f","i","c","e",".","c","o","m">>,
    <<"h","t","t","p","s",":","/","/","u","s","e","r","@","e","x","a","m","p","l","e",".","c","o","m",":","8","0","8","0">>,
    <<"o","u","t","l","o","o","k",".","o","f","f","i","c","e",".","c","o","m",":","4","4","3">>,
    \* URLs url.Parse rejects
    <<":","/","/","o","u","t","l","o","o","k",".","o","f","f","i","c","e",".","c","o","m">>,
    <<"h","t","t","p","s",":","/","/","e","x","a"," ","m","p","l","e",".","c","o","m">>,
    <<"h","t","t","p","s",":","/","/","e","x","a","m","p","l","e",".","c","o","m",":","8","x">>,
    <<"h","t","t","p","s",":","/","/","e","x","a","m","p","l","e","\n",".","c","o","m">>
}

\* the characters the id segments are filled with, cycled: three fillings
\* of the class [-a-zA-Z0-9] and one that leaves it
IdPatterns == { <<"a","1","B","-">>, <<"-">>, <<"Z","9">>, <<"a","_">> }

SegmentLengths(n) == { k \in (n - MaxDelta)..(n + MaxDelta) : k >= 0 }

\* /webhook/{n1}@{n2}/IncomingWebhook/{n3}/{n4}
WebhookPath(n1, n2, n3, n4, p) ==
    <<"/","w","e","b","h","o","o","k","/">>
    \o Fill(p, n1) \o <<"@">> \o Fill(p, n2)
    \o <<"/","I","n","c","o","m","i","n","g","W","e","b","h","o","o","k","/">>
    \o Fill(p, n3) \o <<"/">> \o Fill(p, n4)

URLPaths ==
    {<<>>, <<"/">>}
    \cup { WebhookPath(n1, n2, n3, n4, p) :
             n1 \in SegmentLengths(GUIDLen), n2 \in SegmentLengths(GUIDLen),
             n3 \in SegmentLengths(TokenLen), n4 \in SegmentLengths(GUIDLen),
             p \in IdPatterns }

\* every string of at most MaxShortLen characters over ShortAlphabet
ShortAlphabet == {"h", ":", "/", "\n"}

ShortURLs == UNION { [1..n -> ShortAlphabet] : n \in 0..MaxShortLen }

WebhookURLs == { h \o t : h \in URLHeads, t \in URLPaths } \cup ShortURLs

----------------------------------------------------------------------------
(* src/unnamed/part_001: the config package *)

defaultMessageThemeColor == <<"#","8","3","2","5","6","1">>

defaultTeamName == <<"u","n","s","p","e","c","i","f","i","e","d">>

defaultChannelName == <<"u","n","s","p","e","c","i","f","i","e","d">>

\* messagecard.PotentialActionMaxSupported of go-teams-notify
PotentialActionMaxSupported == 4

\* a slice: nil, or the sequence of its elements
NilSlice == [nil |-> TRUE, elems |-> <<>>]

Slice(elems) == [nil |-> FALSE, elems |-> elems]

\* len() of a slice
SliceLen(slice) == Len(slice.elems)

\* the mode-specific checks of Validate with the mention-mode checks in the
\* order title, target URLs, theme colour
modeChecksTitleFirst(c) ==
    IF c.UserMentions # NilSlice
    THEN IF c.MessageTitle # <<>>
         THEN Err("IncompatibleTitle")
         ELSE IF SliceLen(c.TargetURLs) > 0
         THEN Err("IncompatibleTargetURLs")
         ELSE IF c.ThemeColor # defaultMessageThemeColor
         THEN Err("IncompatibleThemeColor")
         ELSE NoError
    ELSE IF Len(c.ThemeColor) < Len(defaultMessageThemeColor)
         THEN ErrGot("ThemeColorTooShort", c.ThemeColor)
         ELSE IF c.MessageTitle = <<>>
         THEN Err("TitleTooShort")
         ELSE IF SliceLen(c.TargetURLs) > PotentialActionMaxSupported
         THEN Err("TooManyTargetURLs")
         ELSE NoError

\* the mode-specific checks of Validate with the title check of mention
\* mode left out
modeChecksNoMentionTitle(c) ==
    IF c.UserMentions # NilSlice
    THEN IF SliceLen(c.TargetURLs) > 0
         THEN Err("IncompatibleTargetURLs")
         ELSE IF c.ThemeColor # defaultMessageThemeColor
         THEN Err("IncompatibleThemeColor")
         ELSE NoError
    ELSE IF Len(c.ThemeColor) < Len(defaultMessageThemeColor)
         THEN ErrGot("ThemeColorTooShort", c.ThemeColor)
         ELSE IF c.MessageTitle = <<>>
         THEN Err("TitleTooShort")
         ELSE IF SliceLen(c.TargetURLs) > PotentialActionMaxSupported
         THEN Err("TooManyTargetURLs")
         ELSE NoError

\* the mode-specific checks of Validate with the target URL count compared
\* with >= where the code has >
modeChecksOffByOne(c) ==
    IF c.UserMentions # NilSlice
    THEN IF SliceLen(c.TargetURLs) > 0
         THEN Err("IncompatibleTargetURLs")
         ELSE IF c.MessageTitle # <<>>
         THEN Err("IncompatibleTitle")
         ELSE IF c.ThemeColor # defaultMessageThemeColor
         THEN Err("IncompatibleThemeColor")
         ELSE NoError
    ELSE IF Len(c.ThemeColor) < Len(defaultMessageThemeColor)
         THEN ErrGot("ThemeColorTooShort", c.ThemeColor)
         ELSE IF c.MessageTitle = <<>>
         THEN Err("TitleTooShort")
         ELSE IF SliceLen(c.TargetURLs) >= PotentialActionMaxSupported
         THEN Err("TooManyTargetURLs")
         ELSE NoError

\* the mode-specific checks of Validate with the theme colour length
\* compared with != where the code has <
modeChecksExactLength(c) ==
    IF c.UserMentions # NilSlice
    THEN IF SliceLen(c.TargetURLs) > 0
         THEN Err("IncompatibleTargetURLs")
         ELSE IF c.MessageTitle # <<>>
         THEN Err("IncompatibleTitle")
         ELSE IF c.ThemeColor # defaultMessageThemeColor
         THEN Err("IncompatibleThemeColor")
         ELSE NoError
    ELSE IF Len(c.ThemeColor) # Len(defaultMessageThemeColor)
         THEN ErrGot("ThemeColorTooShort", c.ThemeColor)
         ELSE IF c.MessageTitle = <<>>
         THEN Err("TitleTooShort")
         ELSE IF SliceLen(c.TargetURLs) > PotentialActionMaxSupported
         THEN Err("TooManyTargetURLs")
         ELSE NoError

\* Config.Validate, the switch on c.UserMentions: the checks of mention
\* mode, or by default the checks of a message card
modeChecks(c) ==
    IF c.UserMentions # NilSlice
    THEN IF SliceLen(c.TargetURLs) > 0
         THEN Err("IncompatibleTargetURLs")
         ELSE IF c.MessageTitle # <<>>
         THEN Err("IncompatibleTitle")
         ELSE IF c.ThemeColor # defaultMessageThemeColor
         THEN Err("IncompatibleThemeColor")
         ELSE NoError
    ELSE IF Len(c.ThemeColor) < Len(defaultMessageThemeColor)
         THEN ErrGot("ThemeColorTooShort", c.ThemeColor)
         ELSE IF c.MessageTitle = <<>>
         THEN Err("TitleTooShort")
         ELSE IF SliceLen(c.TargetURLs) > PotentialActionMaxSupported
         THEN Err("TooManyTargetURLs")
         ELSE NoError

\* the shared checks of Validate with the webhook URL validated whatever
\* disableWebhookURLValidation says
sharedChecksAlwaysValidate(c, disableWebhookURLValidation, clientAccepts) ==
    IF c.SilentOutput /\ c.VerboseOutput
    THEN Err("SilentAndVerbose")
    ELSE IF c.MessageText = <<>>
    THEN Err("MessageTooShort")
    ELSE IF c.Retries < 0
    THEN Err("RetriesTooShort")
    ELSE IF c.RetriesDelay < 0
    THEN Err("RetriesDelayTooShort")
    ELSE IF ~clientAccepts
    THEN ErrGot("WebhookValidationFailed", c.WebhookURL)
    ELSE NoError

\* the shared checks of Validate with the message text checked before the
\* output flags
sharedChecksTextFirst(c, disableWebhookURLValidation, clientAccepts) ==
    IF c.MessageText = <<>>
    THEN Err("MessageTooShort")
    ELSE IF c.SilentOutput /\ c.VerboseOutput
    THEN Err("SilentAndVerbose")
    ELSE IF c.Retries < 0
    THEN Err("RetriesTooShort")
    ELSE IF c.RetriesDelay < 0
    THEN Err("RetriesDelayTooShort")
    ELSE IF ~disableWebhookURLValidation /\ ~clientAccepts
    THEN ErrGot("WebhookValidationFailed", c.WebhookURL)
    ELSE NoError

\* the shared checks of Validate with the retries delay checked before the
\* retries
sharedChecksDelayFirst(c, disableWebhookURLValidation, clientAccepts) ==
    IF c.SilentOutput /\ c.VerboseOutput
    THEN Err("SilentAndVerbose")
    ELSE IF c.MessageText = <<>>
    THEN Err("MessageTooShort")
    ELSE IF c.RetriesDelay < 0
    THEN Err("RetriesDelayTooShort")
    ELSE IF c.Retries < 0
    THEN Err("RetriesTooShort")
    ELSE IF ~disableWebhookURLValidation /\ ~clientAccepts
    THEN ErrGot("WebhookValidationFailed", c.WebhookURL)
    ELSE NoError

\* the shared checks of Validate with the team and channel names required,
\* as Validate of src/internal/config/config.go requires them
sharedChecksTeamRequired(c, disableWebhookURLValidation, clientAccepts) ==
    IF c.SilentOutput /\ c.VerboseOutput
    THEN Err("SilentAndVerbose")
    ELSE IF c.MessageText = <<>>
    THEN Err("MessageTooShort")
    ELSE IF c.Team = <<>>
    THEN Err("TeamTooShort")
    ELSE IF c.Channel = <<>>
    THEN Err("ChannelTooShort")
    ELSE IF c.Retries < 0
    THEN Err("RetriesTooShort")
    ELSE IF c.RetriesDelay < 0
    THEN Err("RetriesDelayTooShort")
    ELSE IF ~disableWebhookURLValidation /\ ~clientAccepts
    THEN ErrGot("WebhookValidationFailed", c.WebhookURL)
    ELSE NoError

\* Config.Validate, the shared checks.  clientAccepts is the verdict of
\* mstClient.ValidateWebhook(c.WebhookURL) of go-teams-notify, which the
\* code consults only when validation is not disabled
sharedChecks(c, disableWebhookURLValidation, clientAccepts) ==
    IF c.SilentOutput /\ c.VerboseOutput
    THEN Err("SilentAndVerbose")
    ELSE IF c.MessageText = <<>>
    THEN Err("MessageTooShort")
    ELSE IF c.Retries < 0
    THEN Err("RetriesTooShort")
    ELSE IF c.RetriesDelay < 0
    THEN Err("RetriesDelayTooShort")
    ELSE IF ~disableWebhookURLValidation /\ ~clientAccepts
    THEN ErrGot("WebhookValidationFailed", c.WebhookURL)
    ELSE NoError

\* Config.Validate(disableWebhookURLValidation)
Validate(c, disableWebhookURLValidation, clientAccepts) ==
    IF modeChecks(c) # NoError
    THEN modeChecks(c)
    ELSE sharedChecks(c, disableWebhookURLValidation, clientAccepts)

----------------------------------------------------------------------------
(* src/main.go: the helpers of main *)

\* strings.ReplaceAll: the non-overlapping instances of old, left to right
RECURSIVE ReplaceAll(_, _, _)
ReplaceAll(s, old, new) ==
    IF Len(s) < Len(old)
    THEN s
    ELSE IF SubSeq(s, 1, Len(old)) = old
    THEN new \o ReplaceAll(From(s, Len(old) + 1), old, new)
    ELSE <<s[1]>> \o ReplaceAll(Tail(s), old, new)

breakStatement == <<"<","b","r",">">>

\* "\\r\\n": backslash, r, backslash, n
windowsEOL == <<"\\","r","\\","n">>

\* "\\r"
macEOL == <<"\\","r">>

\* "\\n"
unixEOL == <<"\\","n">>

\* the version of a build that the Makefile has not stamped
version == <<"d","e","v"," ","b","u","i","l","d">>

myAppName == <<"s","e","n","d","2","t","e","a","m","s">>

myAppURL ==
    <<"h","t","t","p","s",":","/","/","g","i","t","h","u","b",".","c","o","m","/">>
      \o <<"a","t","c","0","0","0","5","/">> \o myAppName

\* fmt.Sprintf("%s %s Message generated by [%s](%s) (%s)", breakStatement,
\* breakStatement, myAppName, myAppURL, version)
messageTrailer ==
    breakStatement \o <<" ">> \o breakStatement
      \o <<" ","M","e","s","s","a","g","e"," ","g","e","n","e","r","a","t","e","d"," ","b","y"," ","[">>
      \o myAppName \o <<"]","(">> \o myAppURL \o <<")"," ","(">> \o version \o <<")">>

\* validateMessage
validateMessage(m) ==
    IF Len(m.ThemeColor) < Len(defaultMessageThemeColor)
    THEN ErrGot("ThemeColorTooShort", m.ThemeColor)
    ELSE IF m.MessageTitle = <<>>
    THEN Err("TitleTooShort")
    ELSE IF m.MessageText = <<>>
    THEN Err("MessageTooShort")
    ELSE NoError

\* validateWebhook of main.go comparing the length with < where the code
\* has <=
validateWebhookStrictLength(w) ==
    IF w.Team = <<>>
    THEN Err("TeamTooShort")
    ELSE IF w.Channel = <<>>
    THEN Err("ChannelTooShort")
    ELSE IF Len(w.WebhookURL) < Len(webhookURLOfficecomPrefix)
    THEN ErrGot("TooShort", w.WebhookURL)
    ELSE IF /\ ~HasPrefix(w.WebhookURL, webhookURLOfficecomPrefix)
            /\ ~HasPrefix(w.WebhookURL, webhookURLOffice365Prefix)
    THEN IF ~Parse(w.WebhookURL).ok
         THEN ErrGot("ParseError", w.WebhookURL)
         ELSE ErrGot("UnrecognizedHost",
                     Parse(w.WebhookURL).Scheme \o <<":","/","/">>
                        \o Parse(w.WebhookURL).Host)
    ELSE IF ~MatchString(validWebhookURLRegex, w.WebhookURL)
    THEN ErrGot("PatternMismatch", w.WebhookURL)
    ELSE NoError

\* validateWebhook of main.go, whose prefixes and regular expression are
\* those of the teams package
validateWebhook(w) ==
    IF w.Team = <<>>
    THEN Err("TeamTooShort")
    ELSE IF w.Channel = <<>>
    THEN Err("ChannelTooShort")
    ELSE IF Len(w.WebhookURL) <= Len(webhookURLOfficecomPrefix)
    THEN ErrGot("TooShort", w.WebhookURL)
    ELSE IF /\ ~HasPrefix(w.WebhookURL, webhookURLOfficecomPrefix)
            /\ ~HasPrefix(w.WebhookURL, webhookURLOffice365Prefix)
    THEN IF ~Parse(w.WebhookURL).ok
         THEN ErrGot("ParseError", w.WebhookURL)
         ELSE ErrGot("UnrecognizedHost",
                     Parse(w.WebhookURL).Scheme \o <<":","/","/">>
                        \o Parse(w.WebhookURL).Host)
    ELSE IF ~MatchString(validWebhookURLRegex, w.WebhookURL)
    THEN ErrGot("PatternMismatch", w.WebhookURL)
    ELSE NoError

\* convertEOLToBreak of main.go
convertEOLToBreak(text) ==
    ReplaceAll(ReplaceAll(ReplaceAll(text, windowsEOL, breakStatement),
                          macEOL, breakStatement),
               unixEOL, breakStatement)

----------------------------------------------------------------------------
(* src/teams/teams.go: ConvertEOLToBreak *)

\* "\r\n": carriage return, line feed
windowsEOLActual == <<"\r","\n">>

\* `\r\n`: backslash, r, backslash, n
windowsEOLEscaped == <<"\\","r","\\","n">>

\* "\r"
macEOLActual == <<"\r">>

\* `\r`
macEOLEscaped == <<"\\","r">>

\* "\n"
unixEOLActual == <<"\n">>

\* `\n`
unixEOLEscaped == <<"\\","n">>

\* strings.Replace(s, old, new, 1): the first instance of old only
RECURSIVE ReplaceFirst(_, _, _)
ReplaceFirst(s, old, new) ==
    IF Len(s) < Len(old)
    THEN s
    ELSE IF SubSeq(s, 1, Len(old)) = old
    THEN new \o From(s, Len(old) + 1)
    ELSE <<s[1]>> \o ReplaceFirst(Tail(s), old, new)

\* ConvertEOLToBreak replacing the first instance of each pattern only
ConvertEOLToBreakFirstOnly(text) ==
    ReplaceFirst(ReplaceFirst(ReplaceFirst(ReplaceFirst(ReplaceFirst(ReplaceFirst(
        text,
        windowsEOLActual, breakStatement),
        windowsEOLEscaped, breakStatement),
        macEOLActual, breakStatement),
        macEOLEscaped, breakStatement),
        unixEOLActual, breakStatement),
        unixEOLEscaped, breakStatement)

\* ConvertEOLToBreak with the Mac patterns replaced before the Windows
\* patterns
ConvertEOLToBreakMacFirst(text) ==
    ReplaceAll(ReplaceAll(ReplaceAll(ReplaceAll(ReplaceAll(ReplaceAll(
        text,
        macEOLActual, breakStatement),
        macEOLEscaped, breakStatement),
        windowsEOLActual, breakStatement),
        windowsEOLEscaped, breakStatement),
        unixEOLActual, breakStatement),
        unixEOLEscaped, breakStatement)

\* ConvertEOLToBreak without the replacement of the escaped Unix pattern
ConvertEOLToBreakNoEscapedUnix(text) ==
    ReplaceAll(ReplaceAll(ReplaceAll(ReplaceAll(ReplaceAll(
        text,
        windowsEOLActual, breakStatement),
        windowsEOLEscaped, breakStatement),
        macEOLActual, breakStatement),
        macEOLEscaped, breakStatement),
        unixEOLActual, breakStatement)

\* ConvertEOLToBreak: six strings.ReplaceAll calls in a row
ConvertEOLToBreak(text) ==
    ReplaceAll(ReplaceAll(ReplaceAll(ReplaceAll(ReplaceAll(ReplaceAll(
        text,
        windowsEOLActual, breakStatement),
        windowsEOLEscaped, breakStatement),
        macEOLActual, breakStatement),
        macEOLEscaped, breakStatement),
        unixEOLActual, breakStatement),
        unixEOLEscaped, breakStatement)

\* the pieces of the texts given to ConvertEOLToBreak: the six patterns,
\* the characters of the escaped ones, a letter and the marker
EOLTokens ==
    { windowsEOLActual, windowsEOLEscaped, macEOLActual, macEOLEscaped,
      unixEOLActual, unixEOLEscaped,
      <<"\\">>, <<"r">>, <<"n">>, <<"a">>, breakStatement }

\* the texts of up to n tokens
RECURSIVE TokenStrings(_)
TokenStrings(n) ==
    IF n = 0
    THEN { <<>> }
    ELSE TokenStrings(n - 1)
           \cup { t \o rest : t \in EOLTokens, rest \in TokenStrings(n - 1) }

EOLInputs == TokenStrings(MaxEOLTokens)

----------------------------------------------------------------------------
(* encoding/json, as formatAsCode of src/teams/teams.go uses it: json.Valid, *)
(* json.Marshal of a string and json.Indent with prefix "" and indent "\t". *)
(* The model covers ASCII texts without form feed and backspace.            *)

\* isSpace of the scanner
JSONSpace == {" ", "\t", "\r", "\n"}

IsHexDigit(c) == IsDigit(c) \/ c \in {"a","b","c","d","e","f","A","B","C","D","E","F"}

\* the first position from i on that holds no white space
RECURSIVE skipSpace(_, _)
skipSpace(s, i) ==
    IF i <= Len(s) /\ s[i] \in JSONSpace THEN skipSpace(s, i + 1) ELSE i

\* the first position from i on that holds no digit
RECURSIVE digitsEnd(_, _)
digitsEnd(s, i) ==
    IF i <= Len(s) /\ IsDigit(s[i]) THEN digitsEnd(s, i + 1) ELSE i

\* the position after the string whose opening quote precedes j, 0 when
\* the text is no string: stateInString, stateInStringEsc, stateInStringEscU
RECURSIVE stringEnd(_, _)
stringEnd(s, j) ==
    IF j > Len(s)
    THEN 0
    ELSE IF s[j] = "\""
    THEN j + 1
    ELSE IF s[j] = "\\"
    THEN IF j + 1 > Len(s)
         THEN 0
         ELSE IF s[j + 1] \in {"\"", "\\", "/", "b", "f", "n", "r", "t"}
         THEN stringEnd(s, j + 2)
         ELSE IF /\ s[j + 1] = "u"
                 /\ j + 5 <= Len(s)
                 /\ \A k \in 2..5 : IsHexDigit(s[j + k])
         THEN stringEnd(s, j + 6)
         ELSE 0
    ELSE IF s[j] \in {"\n", "\r", "\t", "\f"}
    THEN 0
    ELSE stringEnd(s, j + 1)

\* the position after the number that starts at i, 0 when there is none:
\* stateNeg, state0, state1, stateDot, stateDot0, stateE, stateESign, stateE0
numberEnd(s, i) ==
    LET a == IF s[i] = "-" THEN i + 1 ELSE i
        intEnd == IF a > Len(s) THEN 0
                  ELSE IF s[a] = "0" THEN a + 1
                  ELSE IF IsDigit(s[a]) THEN digitsEnd(s, a)
                  ELSE 0
        fracEnd == IF intEnd = 0 THEN 0
                   ELSE IF intEnd <= Len(s) /\ s[intEnd] = "."
                   THEN IF digitsEnd(s, intEnd + 1) > intEnd + 1
                        THEN digitsEnd(s, intEnd + 1)
                        ELSE 0
                   ELSE intEnd
        expStart == IF /\ fracEnd # 0
                       /\ fracEnd + 1 <= Len(s)
                       /\ s[fracEnd + 1] \in {"+", "-"}
                    THEN fracEnd + 2
                    ELSE fracEnd + 1
    IN  IF fracEnd = 0 THEN 0
        ELSE IF fracEnd <= Len(s) /\ s[fracEnd] \in {"e", "E"}
        THEN IF digitsEnd(s, expStart) > expStart
             THEN digitsEnd(s, expStart)
             ELSE 0
        ELSE fracEnd

\* the position after the literal word at i, 0 when it is not there
literalEnd(s, i, word) ==
    IF /\ i + Len(word) - 1 <= Len(s)
       /\ SubSeq(s, i, i + Len(word) - 1) = word
    THEN i + Len(word)
    ELSE 0

RECURSIVE valueEnd(_, _)
RECURSIVE elementsEnd(_, _)
RECURSIVE membersEnd(_, _)

\* the position after the value that starts at i, 0 when there is none:
\* stateBeginValue
valueEnd(s, i) ==
    IF i > Len(s) THEN 0
    ELSE IF s[i] = "\"" THEN stringEnd(s, i + 1)
    ELSE IF s[i] = "[" 
    THEN IF skipSpace(s, i + 1) <= Len(s) /\ s[skipSpace(s, i + 1)] = "]"
         THEN skipSpace(s, i + 1) + 1
         ELSE elementsEnd(s, skipSpace(s, i + 1))
    ELSE IF s[i] = "{"
    THEN IF skipSpace(s, i + 1) <= Len(s) /\ s[skipSpace(s, i + 1)] = "}"
         THEN skipSpace(s, i + 1) + 1
         ELSE membersEnd(s, skipSpace(s, i + 1))
    ELSE IF s[i] = "-" \/ IsDigit(s[i]) THEN numberEnd(s, i)
    ELSE IF s[i] = "t" THEN literalEnd(s, i, <<"t","r","u","e">>)
    ELSE IF s[i] = "f" THEN literalEnd(s, i, <<"f","a","l","s","e">>)
    ELSE IF s[i] = "n" THEN literalEnd(s, i, <<"n","u","l","l">>)
    ELSE 0

\* the position after the "]" of the array whose next element starts at
\* i, 0 when the text is no array: stateEndValue in parseArrayValue
elementsEnd(s, i) ==
    LET v == valueEnd(s, i)
        k == skipSpace(s, v)
    IN  IF v = 0 \/ k > Len(s) THEN 0
        ELSE IF s[k] = "," THEN elementsEnd(s, skipSpace(s, k + 1))
        ELSE IF s[k] = "]" THEN k + 1
        ELSE 0

\* the position after the "}" of the object whose next key starts at i, 0
\* when the text is no object: stateBeginString, stateEndValue in
\* parseObjectKey and parseObjectValue
membersEnd(s, i) ==
    LET key == IF i <= Len(s) /\ s[i] = "\"" THEN stringEnd(s, i + 1) ELSE 0
        colon == skipSpace(s, key)
        v == IF key # 0 /\ colon <= Len(s) /\ s[colon] = ":"
             THEN valueEnd(s, skipSpace(s, colon + 1))
             ELSE 0
        k == skipSpace(s, v)
    IN  IF v = 0 \/ k > Len(s) THEN 0
        ELSE IF s[k] = "," THEN membersEnd(s, skipSpace(s, k + 1))
        ELSE IF s[k] = "}" THEN k + 1
        ELSE 0

\* json.Valid: one value with white space around it
Valid(data) ==
    LET end == valueEnd(data, skipSpace(data, 1))
    IN  end # 0 /\ skipSpace(data, end) = Len(data) + 1

\* the escape json.Marshal writes for a character of a string
EscapeChar(c) ==
    CASE c = "\"" -> <<"\\", "\"">>
      [] c = "\\" -> <<"\\", "\\">>
      [] c = "\n" -> <<"\\", "n">>
      [] c = "\r" -> <<"\\", "r">>
      [] c = "\t" -> <<"\\", "t">>
      [] c = "<"  -> <<"\\","u","0","0","3","c">>
      [] c = ">"  -> <<"\\","u","0","0","3","e">>
      [] c = "&"  -> <<"\\","u","0","0","2","6">>
      [] OTHER    -> <<c>>

RECURSIVE EscapeString(_)
EscapeString(s) ==
    IF s = <<>> THEN <<>> ELSE EscapeChar(s[1]) \o EscapeString(Tail(s))

\* json.Marshal(input) of a string: the escaped text between double quotes
Marshal(input) == <<"\"">> \o EscapeString(input) \o <<"\"">>

\* newline(dst, "", "\t", depth) of json.Indent
IndentNewline(depth) == <<"\n">> \o [k \in 1..depth |-> "\t"]

\* the loop of json.Indent from position i of valid JSON, depth containers
\* deep: needIndent delays the line break after "{" and "[", inString
\* tells a string is open, started that the top-level value has begun
RECURSIVE indentFrom(_, _, _, _, _, _)
indentFrom(s, i, depth, needIndent, inString, started) ==
    IF i > Len(s)
    THEN <<>>
    ELSE IF inString
    THEN IF s[i] = "\\" /\ i < Len(s)
         THEN <<s[i], s[i + 1]>>
                \o indentFrom(s, i + 2, depth, needIndent, TRUE, started)
         ELSE <<s[i]>>
                \o indentFrom(s, i + 1, depth, needIndent, s[i] # "\"", started)
    ELSE IF s[i] \in JSONSpace
    THEN IF started /\ depth = 0 /\ ~needIndent
         THEN <<s[i]>> \o indentFrom(s, i + 1, depth, needIndent, FALSE, started)
         ELSE indentFrom(s, i + 1, depth, needIndent, FALSE, started)
    ELSE IF s[i] \in {"}", "]"}
    THEN IF needIndent
         THEN <<s[i]>> \o indentFrom(s, i + 1, depth, FALSE, FALSE, TRUE)
         ELSE IndentNewline(depth - 1) \o <<s[i]>>
                \o indentFrom(s, i + 1, depth - 1, FALSE, FALSE, TRUE)
    ELSE LET d == IF needIndent THEN depth + 1 ELSE depth
             pre == IF needIndent THEN IndentNewline(d) ELSE <<>>
         IN  IF s[i] \in {"{", "["}
             THEN pre \o <<s[i]>> \o indentFrom(s, i + 1, d, TRUE, FALSE, TRUE)
             ELSE IF s[i] = ","
             THEN pre \o <<s[i]>> \o IndentNewline(d)
                      \o indentFrom(s, i + 1, d, FALSE, FALSE, TRUE)
             ELSE IF s[i] = ":"
             THEN pre \o <<s[i], " ">> \o indentFrom(s, i + 1, d, FALSE, FALSE, TRUE)
             ELSE pre \o <<s[i]>>
                      \o indentFrom(s, i + 1, d, FALSE, s[i] = "\"", TRUE)

\* json.Indent that writes nothing
IndentWritesNothing(src) == [ok |-> Valid(src), out |-> <<>>]

\* json.Indent(&dst, src, "", "\t"): [ok, out]; a syntax error when src is
\* not valid JSON
Indent(src) ==
    IF Valid(src)
    THEN [ok |-> TRUE, out |-> indentFrom(src, 1, 0, FALSE, FALSE, FALSE)]
    ELSE [ok |-> FALSE, out |-> <<>>]

----------------------------------------------------------------------------
(* src/teams/teams.go: FormatAsCodeBlock, FormatAsCodeSnippet *)

\* the grave accent U+0060, a character that a string literal of this
\* language cannot hold
GraveAccent == "U+0060"

\* a newline, three grave accents, a newline
msTeamsCodeBlockSubmissionPrefix ==
    <<"\n", GraveAccent, GraveAccent, GraveAccent, "\n">>

\* three grave accents, a newline
msTeamsCodeBlockSubmissionSuffix == <<GraveAccent, GraveAccent, GraveAccent, "\n">>

msTeamsCodeSnippetSubmissionPrefix == <<GraveAccent>>

msTeamsCodeSnippetSubmissionSuffix == <<GraveAccent>>

\* the (string, error) a function returns
Returned(out, err) == [out |-> out, err |-> err]

\* the switch of formatAsCode on the first and last character of the
\* formatted text.  formattedJSON[0] of an empty text panics (index out of
\* range), and so does formattedJSON[1:0] of a text that is one double
\* quote (slice bounds out of range)
codeContentForSubmission(formattedJSON, prefix, suffix) ==
    IF formattedJSON = <<>> \/ formattedJSON = <<"\"">>
    THEN Returned(<<>>, Err("Panic"))
    ELSE IF /\ formattedJSON[1] # "\""
            /\ formattedJSON[Len(formattedJSON)] # "\""
    THEN Returned(prefix \o formattedJSON \o suffix, NoError)
    ELSE IF formattedJSON[1] # "\""
    THEN Returned(prefix \o formattedJSON, NoError)
    ELSE IF formattedJSON[Len(formattedJSON)] # "\""
    THEN Returned(suffix, NoError)
    ELSE Returned(prefix
                    \o SubSeq(formattedJSON, 2, Len(formattedJSON) - 1)
                    \o suffix,
                  NoError)

\* the part of formatAsCode that follows json.Indent
formatIndented(indented, prefix, suffix) ==
    IF ~indented.ok
    THEN Returned(<<>>, Err("IndentError"))
    ELSE codeContentForSubmission(indented.out, prefix, suffix)

\* formatAsCode: the input when it is valid JSON, else json.Marshal of it,
\* then json.Indent, then the switch
formatAsCode(input, prefix, suffix) ==
    IF input = <<>>
    THEN Returned(<<>>, Err("EmptyInputFormatAsCode"))
    ELSE formatIndented(Indent(IF Valid(input) THEN input ELSE Marshal(input)),
                        prefix, suffix)

\* FormatAsCodeBlock without its own test of the empty string
FormatAsCodeBlockNoEmptyCheck(input) ==
    formatAsCode(input, msTeamsCodeBlockSubmissionPrefix,
                 msTeamsCodeBlockSubmissionSuffix)

\* FormatAsCodeBlock
FormatAsCodeBlock(input) ==
    IF input = <<>>
    THEN Returned(<<>>, Err("EmptyInput"))
    ELSE formatAsCode(input, msTeamsCodeBlockSubmissionPrefix,
                      msTeamsCodeBlockSubmissionSuffix)

\* FormatAsCodeSnippet
FormatAsCodeSnippet(input) ==
    IF input = <<>>
    THEN Returned(<<>>, Err("EmptyInput"))
    ELSE formatAsCode(input, msTeamsCodeSnippetSubmissionPrefix,
                      msTeamsCodeSnippetSubmissionSuffix)

\* the return of TryToFormatAsCodeBlock and TryToFormatAsCodeSnippet: the
\* input when the strict function returned an error, else its result
tryResult(returned, input) ==
    IF returned.err # NoError THEN input ELSE returned.out

\* a TryToFormatAsCodeBlock that returns its input whatever happened
TryToFormatAsCodeBlockKeepsInput(input) == input

\* TryToFormatAsCodeBlock
TryToFormatAsCodeBlock(input) == tryResult(FormatAsCodeBlock(input), input)

\* TryToFormatAsCodeSnippet
TryToFormatAsCodeSnippet(input) == tryResult(FormatAsCodeSnippet(input), input)

\* texts that are valid JSON
ValidJSONCores == {
    <<"{","\"","a","\"",":","1","}">>,
    <<"[","1",",","\"","a","\"","]">>,
    <<"{","\"","a","\"",":","[","1",",","{","\"","b","\"",":","\"","c","\"","}","]","}">>,
    <<"\"","a","\"">>,
    <<"\"","\"">>,
    <<"\"","a","\\","\"","b","\"">>,
    <<"1">>,
    <<"-","1",".","5","e","2">>,
    <<"t","r","u","e">>,
    <<"n","u","l","l">>,
    <<"{","}">>,
    <<"[","]">>
}

\* texts that are not: words, unbalanced quotes and brackets, characters
\* json.Marshal escapes
OtherCores == {
    <<"h","e","l","l","o">>,
    <<"h","i"," ","y","o","u">>,
    <<"a","\"">>,
    <<"\"","a">>,
    <<"\"">>,
    <<"{","\"","a","\"",":","1">>,
    <<"[","1",",","]">>,
    <<"{","\"","a","\"","}">>,
    <<"0","1">>,
    <<"a","<","b",">","&">>,
    <<"\\">>,
    <<"a","\n","b">>,
    <<"a","\t","b","\r">>,
    <<"n","u","l">>
}

\* white space of up to n characters
RECURSIVE Pads(_)
Pads(n) ==
    IF n = 0
    THEN { <<>> }
    ELSE Pads(n - 1) \cup { <<c>> \o p : c \in {" ", "\n"}, p \in Pads(n - 1) }

\* text inside d arrays
RECURSIVE Nested(_, _)
Nested(text, d) ==
    IF d = 0 THEN text ELSE <<"[">> \o Nested(text, d - 1) \o <<"]">>

\* the inputs of FormatAsCodeBlock and FormatAsCodeSnippet: the empty
\* string, and the texts above, nested and with white space around them
FormatInputs ==
    { <<>> }
      \cup { lead \o Nested(core, d) \o trail :
               lead \in Pads(MaxPad), trail \in Pads(MaxPad),
               core \in ValidJSONCores \cup OtherCores, d \in 0..MaxNesting }

----------------------------------------------------------------------------
(* src/unnamed/part_001: MessageTrailer *)

brandingTextPrefix ==
    <<"M","e","s","s","a","g","e"," ","d","e","l","i","v","e","r","e","d"," ","b","y">>

brandingTextSuffix == <<"o","n"," ","b","e","h","a","l","f"," ","o","f">>

\* strings.TrimSpace, for texts of ASCII characters
RECURSIVE TrimSpace(_)
TrimSpace(s) ==
    IF s = <<>>
    THEN s
    ELSE IF s[1] \in {" ", "\t", "\n", "\r"}
    THEN TrimSpace(Tail(s))
    ELSE IF s[Len(s)] \in {" ", "\t", "\n", "\r"}
    THEN TrimSpace(SubSeq(s, 1, Len(s) - 1))
    ELSE s

\* a MessageTrailer that credits every sender but the empty string
MessageTrailerUntrimmed(sender, now) ==
    brandingTextPrefix \o <<" ", "[">> \o myAppName \o <<"]", "(">> \o myAppURL
      \o <<")", " ", "(">> \o version \o <<")", " ", "a", "t", " ">> \o now
      \o (IF sender # <<>>
          THEN <<" ">> \o brandingTextSuffix \o <<" ">> \o sender \o <<" ">>
          ELSE <<>>)

\* MessageTrailer, now being time.Now().Format(time.RFC3339)
MessageTrailer(sender, now) ==
    brandingTextPrefix \o <<" ", "[">> \o myAppName \o <<"]", "(">> \o myAppURL
      \o <<")", " ", "(">> \o version \o <<")", " ", "a", "t", " ">> \o now
      \o (IF TrimSpace(sender) # <<>>
          THEN <<" ">> \o brandingTextSuffix \o <<" ">> \o sender \o <<" ">>
          ELSE <<>>)

\* texts of up to n characters, among them white space
RECURSIVE Senders(_)
Senders(n) ==
    IF n = 0
    THEN { <<>> }
    ELSE Senders(n - 1)
           \cup { <<c>> \o rest : c \in {" ", "\t", "a", "o"}, rest \in Senders(n - 1) }

\* two readings of the clock in the layout of time.RFC3339
Timestamps == {
    <<"2","0","2","0","-","0","8","-","0","2","T","0","7",":","0","5",":","1","2","Z">>,
    <<"2","0","2","1","-","1","2","-","3","1","T","2","3",":","5","9",":","5","9","-","0","5",":","0","0">>
}

\* trailer := MessageTrailer(sender)
TrailerCall ==
    /\ textPC = "call"
    /\ textCall' = "MessageTrailer"
    /\ textOutput' = MessageTrailer(textInput, textPrev)
    /\ textPC' = "done"
    /\ UNCHANGED <<textInput, textErr, textPrev, webhookVars, configVars, mainVars>>

----------------------------------------------------------------------------
(* The inputs of the config package *)

\* -color: the default, one character short, empty, seven characters that
\* are no hex colour, no "#", and eight characters
ThemeColors == {
    defaultMessageThemeColor,
    <<"#","8","3","2","5","6">>,
    <<>>,
    <<"z","z","z","z","z","z","z">>,
    <<"#","8","3","2","5","6","1","1">>
}

MessageTitles == { <<>>, <<"T","e","s","t">> }

MessageTexts == { <<>>, <<"H","e","l","l","o">> }

\* -url: none, another host, and a URL of the documented form
ConfigWebhookURLs == {
    <<>>,
    <<"h","t","t","p","s",":","/","/","h","t","t","p","b","i","n",".","o","r","g","/","p","o","s","t">>,
    webhookURLOfficecomPrefix
        \o WebhookPath(GUIDLen, GUIDLen, TokenLen, GUIDLen, <<"a","1","B","-">>)
}

\* the slice n -target-url flags leave: nil without any, as flag.Value.Set
\* is what appends to it
TargetURLsOf(n) ==
    IF n = 0
    THEN NilSlice
    ELSE Slice([i \in 1..n |->
                  [URL |-> <<"h","t","t","p","s",":","/","/","e","x",".","a","m">>,
                   Description |-> <<"l","i","n","k">>]])

\* the slice of the -user-mention flags: nil without any
UserMentionSlices ==
    { NilSlice,
      Slice(<<[Name |-> <<"J","o","e">>, ID |-> <<"j","@","e","x",".","a","m">>]>>) }

\* Config{}
ZeroConfig ==
    [ Team |-> <<>>, Channel |-> <<>>, WebhookURL |-> <<>>,
      ThemeColor |-> <<>>, MessageTitle |-> <<>>, MessageText |-> <<>>,
      Sender |-> <<>>,
      TargetURLs |-> NilSlice, UserMentions |-> NilSlice,
      Retries |-> 0, RetriesDelay |-> 0,
      DisableWebhookURLValidation |-> FALSE, IgnoreInvalidResponse |-> FALSE,
      VerboseOutput |-> FALSE, SilentOutput |-> FALSE, ConvertEOL |-> FALSE,
      ShowVersion |-> FALSE ]

\* the numbers of -target-url flags: none, one, the most a card supports,
\* and more than that
TargetURLCounts ==
    {0, 1, PotentialActionMaxSupported}
        \cup ((PotentialActionMaxSupported + 1)..MaxTargetURLs)

\* -retries: negative, zero and the largest value
RetriesValues == {-1, 0, MaxRetries}

\* -retries-delay: negative and the largest value
RetriesDelayValues == {-1, MaxRetriesDelay}

\* -team, -channel: the default, and the empty string an explicit flag
\* can set
ConfigTeamNames == { defaultTeamName, <<>> }

ConfigChannelNames == { defaultChannelName, <<>> }

\* the configurations the command line can leave in cfg.  Validate reads
\* neither Sender, IgnoreInvalidResponse nor ConvertEOL; they keep their
\* defaults
ConfigInputs ==
    { [ ZeroConfig EXCEPT
          !.Team = team,
          !.Channel = channel,
          !.WebhookURL = url,
          !.ThemeColor = color,
          !.MessageTitle = title,
          !.MessageText = text,
          !.TargetURLs = TargetURLsOf(n),
          !.UserMentions = mentions,
          !.Retries = io[3],
          !.RetriesDelay = io[4],
          !.DisableWebhookURLValidation = flags[1],
          !.VerboseOutput = io[1],
          !.SilentOutput = io[2],
          !.ShowVersion = flags[2] ] :
        team \in ConfigTeamNames, channel \in ConfigChannelNames,
        url \in ConfigWebhookURLs, color \in ThemeColors,
        title \in MessageTitles, text \in MessageTexts,
        n \in TargetURLCounts, mentions \in UserMentionSlices,
        io \in BOOLEAN \X BOOLEAN \X RetriesValues \X RetriesDelayValues,
        flags \in BOOLEAN \X BOOLEAN }

\* strings.Split(s, sep) for a separator of one character
RECURSIVE Split(_, _)
Split(s, sep) ==
    IF Index(s, sep) = 0
    THEN <<s>>
    ELSE <<SubSeq(s, 1, Index(s, sep) - 1)>> \o Split(From(s, Index(s, sep) + 1), sep)

\* the loop of Set over the items: white space trimmed, quotes dropped
pruneItem(item) ==
    ReplaceAll(ReplaceAll(TrimSpace(item), <<"'">>, <<>>), <<"\"">>, <<>>)

\* the end of targetURLsStringFlag.Set with the append before url.Parse
appendTargetURLFirst(tus, u, desc) ==
    [ slice |-> Slice(Append(tus.elems, [URL |-> u, Description |-> desc])),
      err |-> IF u.ok THEN NoError ELSE Err("URLParse") ]

\* the end of targetURLsStringFlag.Set: u, err := url.Parse(items[0]) and
\* the append
appendTargetURL(tus, u, desc) ==
    IF ~u.ok
    THEN [slice |-> tus, err |-> Err("URLParse")]
    ELSE [slice |-> Slice(Append(tus.elems, [URL |-> u, Description |-> desc])),
          err |-> NoError]

\* (tus *targetURLsStringFlag) Set(value), items being
\* strings.Split(value, ","): the slice it leaves and its error
targetURLsSet(tus, items) ==
    IF Len(items) # 2
    THEN [slice |-> tus, err |-> Err("ItemCount")]
    ELSE appendTargetURL(tus, Parse(pruneItem(items[1])), pruneItem(items[2]))

\* (ums *userMentionsStringFlag) Set(value), items being
\* strings.Split(value, ",")
userMentionsSet(ums, items) ==
    IF Len(items) # 2
    THEN [slice |-> ums, err |-> Err("ItemCount")]
    ELSE [slice |-> Slice(Append(ums.elems, [Name |-> pruneItem(items[1]),
                                             ID |-> pruneItem(items[2])])),
          err |-> NoError]

\* values of -target-url and -user-mention: no comma, one comma, two
\* commas, white space and quotes around the items, empty items, a URL
\* without a scheme before its colon, a URL with a line feed in it
FlagValues == {
    <<>>,
    <<"J","o","e">>,
    <<",">>,
    <<"J","o","e",",","j","@","e","x",".","a","m">>,
    <<" ","\"","J","o","e","\""," ",","," ","'","j","@","e","x",".","a","m","'","\t">>,
    <<"h","t","t","p","s",":","/","/","e","x",".","a","m",",","l","i","n","k">>,
    <<"h","t","t","p","s",":","/","/","e","x",".","a","m",","," ","d","o","c","s"," ">>,
    <<"h","t","t","p","s",":","/","/","e","x",".","a","m",",","l","i","n","k",",","m","o","r","e">>,
    <<":","x",",","l","i","n","k">>,
    <<"a","\n","b",",","l","i","n","k">>,
    <<",",",">>
}

\* flag.Parse calls c.TargetURLs.Set(value) for a -target-url flag
FlagSetTargetURL ==
    /\ cfgPC = "start"
    /\ SliceLen(cfg.TargetURLs) + SliceLen(cfg.UserMentions) < MaxFlagEntries
    /\ \E value \in FlagValues :
         /\ textInput' = value
         /\ \E set \in {targetURLsSet(cfg.TargetURLs, Split(value, ","))} :
              /\ cfg' = [cfg EXCEPT !.TargetURLs = set.slice]
              /\ textErr' = set.err
    /\ textCall' = "targetURLsStringFlag.Set"
    /\ UNCHANGED <<cfgPC, cfgErr, cfgReturned, cfgUsage, textPC, textOutput,
                   textPrev, webhookVars, mainVars>>

\* flag.Parse calls c.UserMentions.Set(value) for a -user-mention flag
FlagSetUserMention ==
    /\ cfgPC = "start"
    /\ SliceLen(cfg.TargetURLs) + SliceLen(cfg.UserMentions) < MaxFlagEntries
    /\ \E value \in FlagValues :
         /\ textInput' = value
         /\ \E set \in {userMentionsSet(cfg.UserMentions, Split(value, ","))} :
              /\ cfg' = [cfg EXCEPT !.UserMentions = set.slice]
              /\ textErr' = set.err
    /\ textCall' = "userMentionsStringFlag.Set"
    /\ UNCHANGED <<cfgPC, cfgErr, cfgReturned, cfgUsage, textPC, textOutput,
                   textPrev, webhookVars, mainVars>>

\* a *Config: nil, or the configuration it points to
NilPointer == [nil |-> TRUE, val |-> ZeroConfig]

PointerTo(c) == [nil |-> FALSE, val |-> c]

----------------------------------------------------------------------------
(* main (src/main.go) *)

\* -color
MainThemeColors == {
    defaultMessageThemeColor,
    <<"#","8","3","2","5","6">>,
    <<"z","z","z","z","z","z","z">>
}

\* -message: none, plain, with a line feed, with a carriage return and a
\* line feed, and with the four characters backslash r backslash n
MainMessageTexts == {
    <<>>,
    <<"H","e","l","l","o">>,
    <<"a","\n","b">>,
    <<"a","\r","\n","b">>,
    <<"a","\\","r","\\","n","b">>
}

\* -team and -channel
MainLabels == { <<>>, <<"o","p","s">> }

\* -url: none, the two documented forms, another host, a malformed path
MainWebhookURLs == {
    <<>>,
    webhookURLOfficecomPrefix
        \o WebhookPath(GUIDLen, GUIDLen, TokenLen, GUIDLen, <<"a","1","B","-">>),
    webhookURLOffice365Prefix
        \o WebhookPath(GUIDLen, GUIDLen, TokenLen, GUIDLen, <<"Z","9">>),
    <<"h","t","t","p","s",":","/","/","e","x","a","m","p","l","e",".","c","o","m">>
        \o WebhookPath(GUIDLen, GUIDLen, TokenLen, GUIDLen, <<"a","1","B","-">>),
    webhookURLOfficecomPrefix
        \o WebhookPath(GUIDLen, GUIDLen, TokenLen, GUIDLen + 1, <<"a","1","B","-">>)
}

\* goteamsnotify.NewMessageCard(), as far as main fills it
NewMessageCard == [Title |-> <<>>, Text |-> <<>>, ThemeColor |-> <<>>]

\* no text function of the teams package has been called
TextIdle ==
    /\ textPC = "input"
    /\ textCall = "none"
    /\ textInput = <<>>
    /\ textOutput = <<>>
    /\ textErr = NoError
    /\ textPrev = <<>>

\* the variables of main as main declares them: TeamsChannel{},
\* TeamsMessage{}, three false flags, nothing sent or printed
MainIdle ==
    /\ mainPC = "start"
    /\ message = [ThemeColor |-> <<>>, MessageTitle |-> <<>>, MessageText |-> <<>>]
    /\ webhook = [Team |-> <<>>, Channel |-> <<>>, WebhookURL |-> <<>>]
    /\ verboseOutput = FALSE
    /\ silentOutput = FALSE
    /\ convertEOL = FALSE
    /\ msgCard = NewMessageCard
    /\ sent = <<>>
    /\ sendErr = NoError
    /\ logDiscard = FALSE
    /\ stdout = <<>>
    /\ stderr = <<>>
    /\ exitCode = -1

\* flag.Parse(): the command line sets the flag variables
MainFlagParse ==
    /\ mainPC = "start"
    /\ \E color \in MainThemeColors, title \in MessageTitles, text \in MainMessageTexts :
         message' = [ThemeColor |-> color, MessageTitle |-> title, MessageText |-> text]
    /\ \E team \in MainLabels, channel \in MainLabels, url \in MainWebhookURLs :
         webhook' = [Team |-> team, Channel |-> channel, WebhookURL |-> url]
    /\ verboseOutput' \in BOOLEAN
    /\ silentOutput' \in BOOLEAN
    /\ convertEOL' \in BOOLEAN
    /\ mainPC' = "validateMessage"
    /\ UNCHANGED <<msgCard, sent, sendErr, logDiscard, stdout, stderr, exitCode,
                   webhookVars, configVars, textVars>>

\* if err := validateMessage(message); err != nil { log.Fatal(err) }
MainValidateMessage ==
    /\ mainPC = "validateMessage"
    /\ IF validateMessage(message) # NoError
       THEN /\ stderr' = Append(stderr, validateMessage(message).kind)
            /\ exitCode' = 1
            /\ mainPC' = "exited"
       ELSE /\ mainPC' = "validateWebhook"
            /\ UNCHANGED <<stderr, exitCode>>
    /\ UNCHANGED <<message, webhook, verboseOutput, silentOutput, convertEOL,
                   msgCard, sent, sendErr, logDiscard, stdout,
                   webhookVars, configVars, textVars>>

\* validateWebhook whose failure is logged without ending the process
MainValidateWebhookNoExit ==
    /\ mainPC = "validateWebhook"
    /\ IF validateWebhook(webhook) # NoError
       THEN /\ stderr' = Append(stderr, validateWebhook(webhook).kind)
            /\ mainPC' = "checkOutput"
            /\ UNCHANGED exitCode
       ELSE /\ mainPC' = "checkOutput"
            /\ UNCHANGED <<stderr, exitCode>>
    /\ UNCHANGED <<message, webhook, verboseOutput, silentOutput, convertEOL,
                   msgCard, sent, sendErr, logDiscard, stdout,
                   webhookVars, configVars, textVars>>

\* if err := validateWebhook(webhook); err != nil { log.Fatal(err) }
MainValidateWebhook ==
    /\ mainPC = "validateWebhook"
    /\ IF validateWebhook(webhook) # NoError
       THEN /\ stderr' = Append(stderr, validateWebhook(webhook).kind)
            /\ exitCode' = 1
            /\ mainPC' = "exited"
       ELSE /\ mainPC' = "checkOutput"
            /\ UNCHANGED <<stderr, exitCode>>
    /\ UNCHANGED <<message, webhook, verboseOutput, silentOutput, convertEOL,
                   msgCard, sent, sendErr, logDiscard, stdout,
                   webhookVars, configVars, textVars>>

\* if silentOutput && verboseOutput { fmt.Println(...); os.Exit(1) }
MainCheckOutput ==
    /\ mainPC = "checkOutput"
    /\ IF silentOutput /\ verboseOutput
       THEN /\ stdout' = Append(stdout, "Unsupported")
            /\ exitCode' = 1
            /\ mainPC' = "exited"
       ELSE /\ mainPC' = "build"
            /\ UNCHANGED <<stdout, exitCode>>
    /\ UNCHANGED <<message, webhook, verboseOutput, silentOutput, convertEOL,
                   msgCard, sent, sendErr, logDiscard, stderr,
                   webhookVars, configVars, textVars>>

\* a card whose text begins with the trailer
MainBuildCardTrailerFirst ==
    /\ mainPC = "build"
    /\ message' = IF convertEOL
                  THEN [message EXCEPT !.MessageText = convertEOLToBreak(@)]
                  ELSE message
    /\ msgCard' = [NewMessageCard EXCEPT
                     !.Title = message'.MessageTitle,
                     !.Text = messageTrailer \o message'.MessageText,
                     !.ThemeColor = message'.ThemeColor]
    /\ logDiscard' = TRUE
    /\ mainPC' = "send"
    /\ UNCHANGED <<webhook, verboseOutput, silentOutput, convertEOL,
                   sent, sendErr, stdout, stderr, exitCode,
                   webhookVars, configVars, textVars>>

\* the optional convertEOLToBreak, the message card, log.SetOutput(Discard)
MainBuildCard ==
    /\ mainPC = "build"
    /\ message' = IF convertEOL
                  THEN [message EXCEPT !.MessageText = convertEOLToBreak(@)]
                  ELSE message
    /\ msgCard' = [NewMessageCard EXCEPT
                     !.Title = message'.MessageTitle,
                     !.Text = message'.MessageText \o messageTrailer,
                     !.ThemeColor = message'.ThemeColor]
    /\ logDiscard' = TRUE
    /\ mainPC' = "send"
    /\ UNCHANGED <<webhook, verboseOutput, silentOutput, convertEOL,
                   sent, sendErr, stdout, stderr, exitCode,
                   webhookVars, configVars, textVars>>

\* sendMessage whose error is reported without os.Exit(1): main goes on to
\* the success report
MainSendMessageNoExit ==
    /\ mainPC = "send"
    /\ sent' = Append(sent, [webhookURL |-> webhook.WebhookURL, card |-> msgCard])
    /\ \E err \in {NoError, Err("SendFailed")} :
         /\ sendErr' = err
         /\ stdout' = IF err # NoError
                       THEN stdout
                              \o (IF ~silentOutput THEN <<"ERROR">> ELSE <<>>)
                              \o (IF ~silentOutput /\ verboseOutput THEN <<"Dump">> ELSE <<>>)
                       ELSE stdout
    /\ logDiscard' = FALSE
    /\ mainPC' = "report"
    /\ UNCHANGED <<message, webhook, verboseOutput, silentOutput, convertEOL,
                   msgCard, stderr, exitCode, webhookVars, configVars, textVars>>

\* sendMessage whose error is reported whatever silentOutput says
MainSendMessageAlwaysReports ==
    /\ mainPC = "send"
    /\ sent' = Append(sent, [webhookURL |-> webhook.WebhookURL, card |-> msgCard])
    /\ \E err \in {NoError, Err("SendFailed")} :
         /\ sendErr' = err
         /\ IF err # NoError
            THEN /\ stdout' = stdout
                        \o <<"ERROR">>
                        \o (IF verboseOutput THEN <<"Dump">> ELSE <<>>)
                 /\ exitCode' = 1
                 /\ mainPC' = "exited"
                 /\ UNCHANGED logDiscard
            ELSE /\ logDiscard' = FALSE
                 /\ mainPC' = "report"
                 /\ UNCHANGED <<stdout, exitCode>>
    /\ UNCHANGED <<message, webhook, verboseOutput, silentOutput, convertEOL,
                   msgCard, stderr, webhookVars, configVars, textVars>>

\* sendMessage(webhook.WebhookURL, msgCard), whose result is the client's;
\* on an error the report unless silent, the dump if verbose, os.Exit(1);
\* else log.SetOutput(os.Stdout)
MainSendMessage ==
    /\ mainPC = "send"
    /\ sent' = Append(sent, [webhookURL |-> webhook.WebhookURL, card |-> msgCard])
    /\ \E err \in {NoError, Err("SendFailed")} :
         /\ sendErr' = err
         /\ IF err # NoError
            THEN /\ stdout' = stdout
                        \o (IF ~silentOutput THEN <<"ERROR">> ELSE <<>>)
                        \o (IF ~silentOutput /\ verboseOutput THEN <<"Dump">> ELSE <<>>)
                 /\ exitCode' = 1
                 /\ mainPC' = "exited"
                 /\ UNCHANGED logDiscard
            ELSE /\ logDiscard' = FALSE
                 /\ mainPC' = "report"
                 /\ UNCHANGED <<stdout, exitCode>>
    /\ UNCHANGED <<message, webhook, verboseOutput, silentOutput, convertEOL,
                   msgCard, stderr, webhookVars, configVars, textVars>>

\* the success message unless silent, webhook and message if verbose, and
\* the return from main
MainReport ==
    /\ mainPC = "report"
    /\ stdout' = stdout
           \o (IF ~silentOutput THEN <<"Success">> ELSE <<>>)
           \o (IF ~silentOutput /\ verboseOutput THEN <<"Webhook", "Message">> ELSE <<>>)
    /\ exitCode' = 0
    /\ mainPC' = "exited"
    /\ UNCHANGED <<message, webhook, verboseOutput, silentOutput, convertEOL,
                   msgCard, sent, sendErr, logDiscard, stderr,
                   webhookVars, configVars, textVars>>

MainNext ==
    \/ MainFlagParse
    \/ MainValidateMessage
    \/ MainValidateWebhook
    \/ MainCheckOutput
    \/ MainBuildCard
    \/ MainSendMessage
    \/ MainReport

----------------------------------------------------------------------------
(* config.NewConfig (src/unnamed/part_001) *)

ConfigIdle ==
    /\ cfgPC = "start"
    /\ cfg = ZeroConfig
    /\ cfgErr = NoError
    /\ cfgReturned = NilPointer
    /\ cfgUsage = FALSE

\* cfg.handleFlagsConfig(): the flags set the fields of cfg
ConfigHandleFlags ==
    /\ cfgPC = "start"
    /\ \E c \in ConfigInputs : cfg' = c
    /\ cfgPC' = "parsed"
    /\ UNCHANGED <<cfgErr, cfgReturned, cfgUsage, webhookVars, mainVars, textVars>>

\* if cfg.ShowVersion { return &cfg, ErrVersionRequested }
ConfigShowVersion ==
    /\ cfgPC = "parsed"
    /\ cfg.ShowVersion
    /\ cfgErr' = Err("VersionRequested")
    /\ cfgReturned' = PointerTo(cfg)
    /\ cfgPC' = "done"
    /\ UNCHANGED <<cfg, cfgUsage, webhookVars, mainVars, textVars>>

\* a NewConfig that validates whether or not the version is asked for
ConfigValidateAlways ==
    /\ cfgPC = "parsed"
    /\ \E clientAccepts \in BOOLEAN :
         LET err == Validate(cfg, cfg.DisableWebhookURLValidation, clientAccepts)
         IN  /\ cfgErr' = err
             /\ cfgUsage' = (err # NoError)
             /\ cfgReturned' = IF err = NoError THEN PointerTo(cfg) ELSE NilPointer
    /\ cfgPC' = "done"
    /\ UNCHANGED <<cfg, webhookVars, mainVars, textVars>>

\* cfg.Validate(cfg.DisableWebhookURLValidation), then flag.Usage() and
\* return nil, err, or return &cfg, nil
ConfigValidate ==
    /\ cfgPC = "parsed"
    /\ ~cfg.ShowVersion
    /\ \E clientAccepts \in BOOLEAN :
         LET err == Validate(cfg, cfg.DisableWebhookURLValidation, clientAccepts)
         IN  /\ cfgErr' = err
             /\ cfgUsage' = (err # NoError)
             /\ cfgReturned' = IF err = NoError THEN PointerTo(cfg) ELSE NilPointer
    /\ cfgPC' = "done"
    /\ UNCHANGED <<cfg, webhookVars, mainVars, textVars>>

ConfigNext == ConfigHandleFlags \/ ConfigShowVersion \/ ConfigValidate

----------------------------------------------------------------------------
(* Calling teams.ConvertEOLToBreak, once and then on its own result *)

\* the caller supplies the text
EOLInput ==
    /\ textPC = "input"
    /\ \E text \in EOLInputs : textInput' = text
    /\ textPC' = "call"
    /\ UNCHANGED <<textCall, textOutput, textErr, textPrev,
                   webhookVars, configVars, mainVars>>

\* s = teams.ConvertEOLToBreak(s)
EOLConvert ==
    /\ textPC = "call"
    /\ textCall' = "ConvertEOLToBreak"
    /\ textOutput' = ConvertEOLToBreak(textInput)
    /\ textPC' = "done"
    /\ UNCHANGED <<textInput, textErr, textPrev,
                   webhookVars, configVars, mainVars>>

\* s = teams.ConvertEOLToBreak(s), a second time
EOLConvertAgain ==
    /\ textPC = "done"
    /\ textCall = "ConvertEOLToBreak"
    /\ textPrev' = textOutput
    /\ textOutput' = ConvertEOLToBreak(textOutput)
    /\ textPC' = "again"
    /\ UNCHANGED <<textCall, textInput, textErr,
                   webhookVars, configVars, mainVars>>

EOLNext == EOLInput \/ EOLConvert \/ EOLConvertAgain

----------------------------------------------------------------------------
(* Calling teams.FormatAsCodeBlock and teams.FormatAsCodeSnippet *)

\* the caller supplies the text
FormatInput ==
    /\ textPC = "input"
    /\ \E text \in FormatInputs : textInput' = text
    /\ textPC' = "call"
    /\ UNCHANGED <<textCall, textOutput, textErr, textPrev,
                   webhookVars, configVars, mainVars>>

\* result, err := teams.FormatAsCodeBlock(input)
FormatCallCodeBlock ==
    /\ textPC = "call"
    /\ textCall' = "FormatAsCodeBlock"
    /\ \E returned \in {FormatAsCodeBlock(textInput)} :
         /\ textOutput' = returned.out
         /\ textErr' = returned.err
    /\ textPC' = "done"
    /\ UNCHANGED <<textInput, textPrev, webhookVars, configVars, mainVars>>

\* result, err := teams.FormatAsCodeSnippet(input)
FormatCallCodeSnippet ==
    /\ textPC = "call"
    /\ textCall' = "FormatAsCodeSnippet"
    /\ \E returned \in {FormatAsCodeSnippet(textInput)} :
         /\ textOutput' = returned.out
         /\ textErr' = returned.err
    /\ textPC' = "done"
    /\ UNCHANGED <<textInput, textPrev, webhookVars, configVars, mainVars>>

\* result := teams.TryToFormatAsCodeBlock(input): a string and no error
FormatCallTryCodeBlock ==
    /\ textPC = "call"
    /\ textCall' = "TryToFormatAsCodeBlock"
    /\ textOutput' = TryToFormatAsCodeBlock(textInput)
    /\ textErr' = NoError
    /\ textPC' = "done"
    /\ UNCHANGED <<textInput, textPrev, webhookVars, configVars, mainVars>>

\* result := teams.TryToFormatAsCodeSnippet(input): a string and no error
FormatCallTryCodeSnippet ==
    /\ textPC = "call"
    /\ textCall' = "TryToFormatAsCodeSnippet"
    /\ textOutput' = TryToFormatAsCodeSnippet(textInput)
    /\ textErr' = NoError
    /\ textPC' = "done"
    /\ UNCHANGED <<textInput, textPrev, webhookVars, configVars, mainVars>>

FormatNext ==
    \/ FormatInput
    \/ FormatCallCodeBlock
    \/ FormatCallCodeSnippet
    \/ FormatCallTryCodeBlock
    \/ FormatCallTryCodeSnippet

----------------------------------------------------------------------------
(* Running teams.ValidateWebhook on one URL *)

WebhookIdle ==
    /\ vwPC = "input"
    /\ webhookURL = <<>>
    /\ vwErr = NoError

WebhookInit ==
    /\ vwPC = "input"
    /\ webhookURL = <<>>
    /\ vwErr = NoError
    /\ ConfigIdle
    /\ MainIdle
    /\ TextIdle

\* the caller supplies the URL
WebhookInput ==
    /\ vwPC = "input"
    /\ \E u \in WebhookURLs : webhookURL' = u
    /\ vwPC' = "call"
    /\ UNCHANGED <<vwErr, configVars, mainVars, textVars>>

\* err := teams.ValidateWebhook(webhookURL)
WebhookValidate ==
    /\ vwPC = "call"
    /\ vwErr' = ValidateWebhook(webhookURL)
    /\ vwPC' = "done"
    /\ UNCHANGED <<webhookURL, configVars, mainVars, textVars>>

WebhookNext == WebhookInput \/ WebhookValidate

SpecWebhook == WebhookInit /\ [][WebhookNext]_vars

EOLInit ==
    /\ textPC = "input"
    /\ textCall = "none"
    /\ textInput = <<>>
    /\ textOutput = <<>>
    /\ textErr = NoError
    /\ textPrev = <<>>
    /\ WebhookIdle
    /\ ConfigIdle
    /\ MainIdle

SpecEOL == EOLInit /\ [][EOLNext]_vars

FormatInit ==
    /\ textPC = "input"
    /\ textCall = "none"
    /\ textInput = <<>>
    /\ textOutput = <<>>
    /\ textErr = NoError
    /\ textPrev = <<>>
    /\ WebhookIdle
    /\ ConfigIdle
    /\ MainIdle

SpecFormat == FormatInit /\ [][FormatNext]_vars

\* the sender in textInput, the reading of the clock in textPrev
TrailerInit ==
    /\ textPC = "call"
    /\ textCall = "none"
    /\ textInput \in Senders(MaxSenderLen)
    /\ textOutput = <<>>
    /\ textErr = NoError
    /\ textPrev \in Timestamps
    /\ WebhookIdle
    /\ ConfigIdle
    /\ MainIdle

SpecTrailer == TrailerInit /\ [][TrailerCall]_vars

\* Config{} before flag.Parse has called a Set method
FlagsInit ==
    /\ cfgPC = "start"
    /\ cfg = ZeroConfig
    /\ cfgErr = NoError
    /\ cfgReturned = [nil |-> TRUE, val |-> ZeroConfig]
    /\ cfgUsage = FALSE
    /\ WebhookIdle
    /\ MainIdle
    /\ TextIdle

SpecFlags == FlagsInit /\ [][FlagSetTargetURL \/ FlagSetUserMention]_vars

ConfigInit ==
    /\ cfgPC = "start"
    /\ cfg = ZeroConfig
    /\ cfgErr = NoError
    /\ cfgReturned = NilPointer
    /\ cfgUsage = FALSE
    /\ WebhookIdle
    /\ MainIdle
    /\ TextIdle

SpecConfig == ConfigInit /\ [][ConfigNext]_vars

MainInit ==
    /\ mainPC = "start"
    /\ message = [ThemeColor |-> <<>>, MessageTitle |-> <<>>, MessageText |-> <<>>]
    /\ webhook = [Team |-> <<>>, Channel |-> <<>>, WebhookURL |-> <<>>]
    /\ verboseOutput = FALSE
    /\ silentOutput = FALSE
    /\ convertEOL = FALSE
    /\ msgCard = NewMessageCard
    /\ sent = <<>>
    /\ sendErr = NoError
    /\ logDiscard = FALSE
    /\ stdout = <<>>
    /\ stderr = <<>>
    /\ exitCode = -1
    /\ WebhookIdle
    /\ ConfigIdle
    /\ TextIdle

SpecMain == MainInit /\ [][MainNext]_vars

\* the positions of main
MainPCs ==
    {"start", "validateMessage", "validateWebhook", "checkOutput", "build",
     "send", "report", "exited"}

\* main moves to another statement; every action of MainNext is such a step
\* and one of them is enabled at every position but "exited"
MainRuns ==
    /\ mainPC # "exited"
    /\ mainPC' \in MainPCs \ {mainPC}

\* main is one sequential process: while a statement is left it runs
SpecMainFair == SpecMain /\ WF_mainPC(MainRuns)

----------------------------------------------------------------------------
(* Claims about main of src/main.go, checked under SpecMain *)

\* the command line fails validateMessage or validateWebhook, or sets both
\* -silent and -verbose
InvalidRun ==
    \/ validateMessage(message) # NoError
    \/ validateWebhook(webhook) # NoError
    \/ (silentOutput /\ verboseOutput)

\* C1: in a run whose message or webhook fails validation, or with both
\* -silent and -verbose, sendMessage is never called: the run never leaves
\* the validation steps, and it ends, with a non-zero exit status and
\* nothing sent.
C1_NoSendAfterFailedValidation ==
    /\ [](  (mainPC # "start" /\ InvalidRun)
              => /\ sent = <<>>
                 /\ mainPC \in {"validateMessage", "validateWebhook",
                                "checkOutput", "exited"}
                 /\ mainPC = "exited" => exitCode # 0 )
    /\ (mainPC # "start" /\ InvalidRun)
          ~> (mainPC = "exited" /\ exitCode # 0 /\ sent = <<>>)

\* a run with a valid message and a rejected webhook has exited with
\* status 1, nothing sent
C1_Witness ==
    /\ mainPC = "exited"
    /\ validateMessage(message) = NoError
    /\ validateWebhook(webhook) # NoError
    /\ exitCode = 1
    /\ sent = <<>>

----------------------------------------------------------------------------
(* Claims about teams.ValidateWebhook, checked under SpecWebhook *)

AcceptedPrefixes == {webhookURLOfficecomPrefix, webhookURLOffice365Prefix}

HasAcceptedPrefix(url) == \E p \in AcceptedPrefixes : HasPrefix(url, p)

\* C2: every string no longer than the shortest accepted host prefix,
\* whatever its content, fails with the too-short error.
C2_ShortURLTooShort ==
    (vwPC = "done" /\ Len(webhookURL) <= Len(webhookURLOfficecomPrefix))
        => vwErr.kind = "TooShort"

\* the string that is exactly the prefix has been rejected as too short
C2_Witness ==
    /\ vwPC = "done"
    /\ webhookURL = webhookURLOfficecomPrefix
    /\ vwErr.kind = "TooShort"

\* C3 as stated: every string that starts with neither accepted prefix
\* fails with the unrecognized-host error reporting the parsed scheme and
\* host.
C3_Original ==
    (vwPC = "done" /\ ~HasAcceptedPrefix(webhookURL))
        => /\ vwErr.kind = "UnrecognizedHost"
           /\ vwErr.got = Parse(webhookURL).Scheme \o <<":","/","/">> \o Parse(webhookURL).Host

\* C3 amended: a string that starts with neither accepted prefix always
\* fails; with the too-short error when it is no longer than the shortest
\* prefix, else with the unable-to-parse error when url.Parse rejects it,
\* else with the unrecognized-host error reporting the parsed scheme and
\* host.
C3_UnrecognizedHost ==
    (vwPC = "done" /\ ~HasAcceptedPrefix(webhookURL))
        => IF Len(webhookURL) <= Len(webhookURLOfficecomPrefix)
           THEN vwErr.kind = "TooShort"
           ELSE IF ~Parse(webhookURL).ok
           THEN vwErr.kind = "ParseError"
           ELSE /\ vwErr.kind = "UnrecognizedHost"
                /\ vwErr.got = Parse(webhookURL).Scheme \o <<":","/","/">>
                                  \o Parse(webhookURL).Host

\* a long URL on another host has been rejected, its scheme and host reported
C3_Witness ==
    /\ vwPC = "done"
    /\ ~HasAcceptedPrefix(webhookURL)
    /\ Len(webhookURL) > Len(webhookURLOfficecomPrefix)
    /\ vwErr.kind = "UnrecognizedHost"
    /\ vwErr.got = <<"h","t","t","p","s",":","/","/","e","x","a","m","p","l","e",".","c","o","m",":","8","0","8","0">>

\* the fillings of IdPatterns that stay within [-a-zA-Z0-9]
ValidIdPatterns == { p \in IdPatterns : \A i \in 1..Len(p) : IsIdChar(p[i]) }

\* <accepted prefix>/webhook/{36}@{36}/IncomingWebhook/{32}/{36}
WellFormedURLs ==
    { h \o WebhookPath(GUIDLen, GUIDLen, TokenLen, GUIDLen, p) :
        h \in AcceptedPrefixes, p \in ValidIdPatterns }

\* the id segment lengths the expression asks for, in order
ExactLengths == <<GUIDLen, GUIDLen, TokenLen, GUIDLen>>

\* the segment lengths that differ from ExactLengths in exactly one place
OneChangedLengths ==
    { t \in SegmentLengths(GUIDLen) \X SegmentLengths(GUIDLen)
              \X SegmentLengths(TokenLen) \X SegmentLengths(GUIDLen) :
        Cardinality({ i \in 1..4 : t[i] # ExactLengths[i] }) = 1 }

\* a well-formed URL with exactly one id segment made longer or shorter
OneSegmentChangedURLs ==
    { h \o WebhookPath(t[1], t[2], t[3], t[4], p) :
        h \in AcceptedPrefixes, p \in ValidIdPatterns, t \in OneChangedLengths }

\* C4: every well-formed URL is accepted, and a well-formed URL with one
\* id segment made longer or shorter fails with the pattern-mismatch error.
C4_PatternAcceptsExactLengths ==
    vwPC = "done"
        => /\ webhookURL \in WellFormedURLs => vwErr = NoError
           /\ webhookURL \in OneSegmentChangedURLs => vwErr.kind = "PatternMismatch"

\* a well-formed office365 URL with mixed-case ids has been accepted
C4_Witness ==
    /\ vwPC = "done"
    /\ webhookURL = webhookURLOffice365Prefix
                      \o WebhookPath(GUIDLen, GUIDLen, TokenLen, GUIDLen, <<"a","1","B","-">>)
    /\ vwErr = NoError

\* a URL with one id segment one character too long has been rejected
C4_WitnessChanged ==
    /\ vwPC = "done"
    /\ webhookURL \in OneSegmentChangedURLs
    /\ vwErr.kind = "PatternMismatch"

----------------------------------------------------------------------------
(* Claims about Config.Validate of src/unnamed/part_001, checked under     *)
(* SpecConfig                                                              *)

\* NewConfig has returned from a call of Validate
Validated == cfgPC = "done" /\ ~cfg.ShowVersion

\* c.UserMentions != nil
MentionMode(c) == ~c.UserMentions.nil

\* what the mode-specific checks ask of a configuration
PassesModeChecks(c) ==
    IF MentionMode(c)
    THEN /\ SliceLen(c.TargetURLs) = 0
         /\ c.MessageTitle = <<>>
         /\ c.ThemeColor = defaultMessageThemeColor
    ELSE /\ Len(c.ThemeColor) >= Len(defaultMessageThemeColor)
         /\ c.MessageTitle # <<>>
         /\ SliceLen(c.TargetURLs) <= PotentialActionMaxSupported

IncompatibleKinds ==
    {"IncompatibleTargetURLs", "IncompatibleTitle", "IncompatibleThemeColor"}

ModeErrorKinds ==
    IncompatibleKinds \cup {"ThemeColorTooShort", "TitleTooShort", "TooManyTargetURLs"}

\* C5: with webhook URL validation disabled, a call of Validate leaves the
\* configuration as it was, and its result is the result of every
\* configuration that differs in WebhookURL alone, whatever the client
\* would say of either URL; an accepted configuration is returned with the
\* WebhookURL it was given.
C5_DisabledValidationIgnoresURL ==
    [][ (cfgPC = "parsed" /\ ~cfg.ShowVersion /\ cfg.DisableWebhookURLValidation)
          => /\ cfg' = cfg
             /\ \A u \in ConfigWebhookURLs, clientAccepts \in BOOLEAN :
                  Validate([cfg EXCEPT !.WebhookURL = u], TRUE, clientAccepts) = cfgErr'
             /\ cfgErr' = NoError => cfgReturned'.val.WebhookURL = cfg.WebhookURL
      ]_vars

\* a configuration without any webhook URL has been accepted
C5_Witness ==
    /\ Validated
    /\ cfg.DisableWebhookURLValidation
    /\ cfg.WebhookURL = <<>>
    /\ cfgErr = NoError
    /\ ~cfgReturned.nil
    /\ cfgReturned.val.WebhookURL = <<>>

\* C6 as stated: with both SilentOutput and VerboseOutput set Validate
\* fails with the conflicting-output-mode error, whatever the other fields.
C6_Original ==
    (Validated /\ cfg.SilentOutput /\ cfg.VerboseOutput)
        => cfgErr.kind = "SilentAndVerbose"

\* C6 amended: with both SilentOutput and VerboseOutput set Validate always
\* fails; with the conflicting-output-mode error when the mode-specific
\* checks pass, whatever MessageText, Retries, RetriesDelay and WebhookURL
\* are, and with the error of a mode-specific check when one fails.
C6_SilentVerboseRejected ==
    (Validated /\ cfg.SilentOutput /\ cfg.VerboseOutput)
        => /\ cfgErr # NoError
           /\ PassesModeChecks(cfg) => cfgErr.kind = "SilentAndVerbose"
           /\ ~PassesModeChecks(cfg) => cfgErr.kind \in ModeErrorKinds

\* the conflicting-output-mode error has been returned for a configuration
\* with no message text and negative retries
C6_Witness ==
    /\ Validated
    /\ cfg.SilentOutput /\ cfg.VerboseOutput
    /\ cfg.MessageText = <<>>
    /\ cfg.Retries < 0
    /\ cfgErr.kind = "SilentAndVerbose"

\* C7: in mention mode a target URL, a title or a theme colour other than
\* the default fails with an incompatible-option error that names a flag
\* which does conflict, and any target URL fails with the target-urls one.
C7_MentionModeIncompatible ==
    (/\ Validated
     /\ MentionMode(cfg)
     /\ \/ SliceLen(cfg.TargetURLs) > 0
        \/ cfg.MessageTitle # <<>>
        \/ cfg.ThemeColor # defaultMessageThemeColor)
        => /\ cfgErr.kind \in IncompatibleKinds
           /\ cfgErr.kind = "IncompatibleTargetURLs" => SliceLen(cfg.TargetURLs) > 0
           /\ cfgErr.kind = "IncompatibleTitle" => cfg.MessageTitle # <<>>
           /\ cfgErr.kind = "IncompatibleThemeColor"
                => cfg.ThemeColor # defaultMessageThemeColor
           /\ SliceLen(cfg.TargetURLs) > 0 => cfgErr.kind = "IncompatibleTargetURLs"

\* a mention with a target URL and a title has been rejected for its
\* target URL
C7_Witness ==
    /\ Validated
    /\ MentionMode(cfg)
    /\ SliceLen(cfg.TargetURLs) > 0
    /\ cfg.MessageTitle # <<>>
    /\ cfgErr.kind = "IncompatibleTargetURLs"

\* C8: an accepted configuration has a message text, has an empty title
\* exactly in mention mode, and in mention mode has no target URL and the
\* default theme colour.
C8_AcceptedConfigShape ==
    (Validated /\ cfgErr = NoError)
        => /\ cfg.MessageText # <<>>
           /\ (cfg.MessageTitle = <<>>) <=> MentionMode(cfg)
           /\ MentionMode(cfg)
                => /\ SliceLen(cfg.TargetURLs) = 0
                   /\ cfg.ThemeColor = defaultMessageThemeColor

\* a mention has been accepted
C8_Witness ==
    /\ Validated
    /\ cfgErr = NoError
    /\ MentionMode(cfg)
    /\ cfg.MessageTitle = <<>>

\* C9 as stated: outside mention mode more target URLs than
\* PotentialActionMaxSupported fail with the too-many-target-links error,
\* and that many or fewer never do.
C9_Original ==
    (Validated /\ ~MentionMode(cfg))
        => /\ SliceLen(cfg.TargetURLs) > PotentialActionMaxSupported
                => cfgErr.kind = "TooManyTargetURLs"
           /\ SliceLen(cfg.TargetURLs) <= PotentialActionMaxSupported
                => cfgErr.kind # "TooManyTargetURLs"

\* C9 amended: outside mention mode more target URLs than
\* PotentialActionMaxSupported always fail, with the too-many-target-links
\* error when the theme colour has at least 7 characters and the title is
\* not empty (the two checks that run first); that many or fewer never
\* fail with that error.
C9_TooManyTargetURLs ==
    (Validated /\ ~MentionMode(cfg))
        => /\ SliceLen(cfg.TargetURLs) > PotentialActionMaxSupported
                => /\ cfgErr # NoError
                   /\ (/\ Len(cfg.ThemeColor) >= Len(defaultMessageThemeColor)
                       /\ cfg.MessageTitle # <<>>)
                        => cfgErr.kind = "TooManyTargetURLs"
           /\ SliceLen(cfg.TargetURLs) <= PotentialActionMaxSupported
                => cfgErr.kind # "TooManyTargetURLs"

\* five target URLs have been rejected as too many
C9_Witness ==
    /\ Validated
    /\ ~MentionMode(cfg)
    /\ SliceLen(cfg.TargetURLs) = PotentialActionMaxSupported + 1
    /\ cfgErr.kind = "TooManyTargetURLs"

\* the theme colours of at least 7 characters
LongThemeColors ==
    { t \in ThemeColors : Len(t) >= Len(defaultMessageThemeColor) }

\* C10: outside mention mode a theme colour of fewer than 7 characters is
\* rejected as too short, and one of 7 or more is never rejected as such:
\* the result is one the call returns with any other theme colour of 7 or
\* more characters in its place.
C10_ThemeColorLengthOnly ==
    (Validated /\ ~MentionMode(cfg))
        => /\ Len(cfg.ThemeColor) < Len(defaultMessageThemeColor)
                => cfgErr.kind = "ThemeColorTooShort"
           /\ Len(cfg.ThemeColor) >= Len(defaultMessageThemeColor)
                => /\ cfgErr.kind # "ThemeColorTooShort"
                   /\ \A t \in LongThemeColors :
                        \E clientAccepts \in BOOLEAN :
                            Validate([cfg EXCEPT !.ThemeColor = t],
                                     cfg.DisableWebhookURLValidation,
                                     clientAccepts) = cfgErr

\* seven characters that are no hex colour have been accepted
C10_Witness ==
    /\ Validated
    /\ ~MentionMode(cfg)
    /\ cfg.ThemeColor = <<"z","z","z","z","z","z","z">>
    /\ cfgErr = NoError

\* the rules of Validate before the webhook URL, in the order of C11, each
\* with the error of its check and whether c violates it
RulesInOrder(c) ==
    (IF MentionMode(c)
     THEN << [kind |-> "IncompatibleTargetURLs", violated |-> SliceLen(c.TargetURLs) > 0],
             [kind |-> "IncompatibleTitle", violated |-> c.MessageTitle # <<>>],
             [kind |-> "IncompatibleThemeColor",
              violated |-> c.ThemeColor # defaultMessageThemeColor] >>
     ELSE << [kind |-> "ThemeColorTooShort",
              violated |-> Len(c.ThemeColor) < Len(defaultMessageThemeColor)],
             [kind |-> "TitleTooShort", violated |-> c.MessageTitle = <<>>],
             [kind |-> "TooManyTargetURLs",
              violated |-> SliceLen(c.TargetURLs) > PotentialActionMaxSupported] >>)
    \o << [kind |-> "SilentAndVerbose", violated |-> c.SilentOutput /\ c.VerboseOutput],
          [kind |-> "MessageTooShort", violated |-> c.MessageText = <<>>],
          [kind |-> "RetriesTooShort", violated |-> c.Retries < 0],
          [kind |-> "RetriesDelayTooShort", violated |-> c.RetriesDelay < 0] >>

\* the positions of the rules c violates
ViolatedRules(c) == { i \in 1..Len(RulesInOrder(c)) : RulesInOrder(c)[i].violated }

\* C11: Validate returns the error of the first rule the configuration
\* violates in the order mode-specific checks, silent+verbose, message
\* text, retries, retries delay, and never the error of a later rule; the
\* webhook URL error, the last, is returned only when no rule before it is
\* violated and validation is not disabled.
C11_FailFastOrder ==
    Validated
        => IF ViolatedRules(cfg) # {}
           THEN \E i \in ViolatedRules(cfg) :
                    /\ \A j \in ViolatedRules(cfg) : i <= j
                    /\ cfgErr.kind = RulesInOrder(cfg)[i].kind
           ELSE /\ cfgErr.kind \in {"nil", "WebhookValidationFailed"}
                /\ cfgErr.kind = "WebhookValidationFailed"
                     => ~cfg.DisableWebhookURLValidation

\* a configuration that violates four rules has been rejected for its
\* title, the first of them
C11_Witness ==
    /\ Validated
    /\ ~MentionMode(cfg)
    /\ Cardinality(ViolatedRules(cfg)) >= 4
    /\ cfg.MessageTitle = <<>>
    /\ cfg.SilentOutput /\ cfg.VerboseOutput
    /\ cfg.MessageText = <<>>
    /\ cfg.Retries < 0
    /\ cfgErr.kind = "TitleTooShort"

\* C12 as stated: Validate never accepts a configuration whose Team or
\* Channel is empty.
C12_Original ==
    (Validated /\ cfgErr = NoError)
        => /\ cfg.Team # <<>>
           /\ cfg.Channel # <<>>

\* C12 amended: Validate of src/unnamed/part_001 reads neither Team nor
\* Channel: its result is a result of the call with any other team and
\* channel name, the empty ones included, and it is never a team or channel
\* error; validateWebhook of main.go is what rejects an empty team or
\* channel name.
C12_TeamChannelOptional ==
    /\ Validated
         => /\ cfgErr.kind \notin {"TeamTooShort", "ChannelTooShort"}
            /\ \A team \in ConfigTeamNames, channel \in ConfigChannelNames :
                 \E clientAccepts \in BOOLEAN :
                     Validate([cfg EXCEPT !.Team = team, !.Channel = channel],
                              cfg.DisableWebhookURLValidation,
                              clientAccepts) = cfgErr
    /\ \A team \in MainLabels, channel \in MainLabels, url \in MainWebhookURLs :
         LET w == [Team |-> team, Channel |-> channel, WebhookURL |-> url]
         IN  /\ team = <<>> => validateWebhook(w).kind = "TeamTooShort"
             /\ (team # <<>> /\ channel = <<>>)
                  => validateWebhook(w).kind = "ChannelTooShort"

\* a configuration without team and channel names has been accepted
C12_Witness ==
    /\ Validated
    /\ cfg.Team = <<>>
    /\ cfg.Channel = <<>>
    /\ cfgErr = NoError
    /\ ~cfgReturned.nil

----------------------------------------------------------------------------
(* Further claims about main of src/main.go, checked under SpecMainFair and *)
(* SpecMain                                                                 *)

\* C13: every run of main ends; it ends with exit status 1 when a
\* validation failed (or -silent and -verbose were both set) or when
\* sendMessage returned an error, and with exit status 0 only when
\* sendMessage was called, once, and returned no error.
C13_ExitStatus ==
    /\ [](mainPC = "exited"
            => /\ exitCode \in {0, 1}
               /\ (InvalidRun \/ sendErr # NoError) => exitCode = 1
               /\ exitCode = 0 => (Len(sent) = 1 /\ sendErr = NoError))
    /\ <>(mainPC = "exited")

\* a run whose validations passed has ended with status 1 after sendMessage
\* returned an error
C13_Witness ==
    /\ mainPC = "exited"
    /\ ~InvalidRun
    /\ Len(sent) = 1
    /\ sendErr # NoError
    /\ exitCode = 1

\* main has ended after a call of sendMessage
Delivered == mainPC = "exited" /\ Len(sent) = 1

\* C14: with -silent a delivery failure prints nothing and still ends with
\* a non-zero exit status, and a delivery success prints nothing; without
\* -silent a failure prints the error line, followed by the dump exactly
\* when -verbose is set.
C14_SilentOutput ==
    Delivered
        => /\ silentOutput
                => /\ stdout = <<>>
                   /\ stderr = <<>>
                   /\ sendErr # NoError => exitCode # 0
           /\ (~silentOutput /\ sendErr # NoError)
                => /\ stdout = IF verboseOutput
                               THEN <<"ERROR", "Dump">>
                               ELSE <<"ERROR">>
                   /\ exitCode # 0

\* a silent run whose delivery failed has ended with status 1 and no output
C14_Witness ==
    /\ Delivered
    /\ silentOutput
    /\ sendErr # NoError
    /\ stdout = <<>>
    /\ stderr = <<>>
    /\ exitCode = 1

----------------------------------------------------------------------------
(* Claims about teams.ConvertEOLToBreak, checked under SpecEOL *)

\* pattern occurs in s
Contains(s, pattern) ==
    \E i \in 1..(Len(s) - Len(pattern) + 1) :
        SubSeq(s, i, i + Len(pattern) - 1) = pattern

\* s holds a carriage return, a line feed, or an escaped one
HasLineEnding(s) ==
    \E pattern \in {macEOLActual, unixEOLActual, macEOLEscaped, unixEOLEscaped} :
        Contains(s, pattern)

\* C15: a second call of ConvertEOLToBreak on the result of the first
\* returns it unchanged, and a text without any line ending but the marker
\* is returned unchanged by the first.
C15_ConvertIdempotent ==
    /\ textPC = "again" => textOutput = textPrev
    /\ (textPC = "done" /\ ~HasLineEnding(textInput)) => textOutput = textInput

\* a text with line endings has been converted twice, the first call
\* changing it and the second not
C15_Witness ==
    /\ textPC = "again"
    /\ HasLineEnding(textInput)
    /\ textPrev # textInput
    /\ Contains(textPrev, breakStatement)
    /\ textOutput = textPrev

\* one scan of s from left to right that writes one marker for each line
\* ending it meets, a Windows line ending counting as one
RECURSIVE ScanLineEndings(_)
ScanLineEndings(s) ==
    IF s = <<>>
    THEN <<>>
    ELSE IF HasPrefix(s, windowsEOLActual)
    THEN breakStatement \o ScanLineEndings(From(s, Len(windowsEOLActual) + 1))
    ELSE IF HasPrefix(s, windowsEOLEscaped)
    THEN breakStatement \o ScanLineEndings(From(s, Len(windowsEOLEscaped) + 1))
    ELSE IF HasPrefix(s, macEOLActual) \/ HasPrefix(s, unixEOLActual)
    THEN breakStatement \o ScanLineEndings(Tail(s))
    ELSE IF HasPrefix(s, macEOLEscaped) \/ HasPrefix(s, unixEOLEscaped)
    THEN breakStatement \o ScanLineEndings(From(s, 3))
    ELSE <<s[1]>> \o ScanLineEndings(Tail(s))

\* the number of markers in s
RECURSIVE CountBreaks(_)
CountBreaks(s) ==
    IF Len(s) < Len(breakStatement)
    THEN 0
    ELSE IF HasPrefix(s, breakStatement)
    THEN 1 + CountBreaks(From(s, Len(breakStatement) + 1))
    ELSE CountBreaks(Tail(s))

\* C16: ConvertEOLToBreak writes exactly one marker for each Windows line
\* ending, literal or escaped: its result is the text with every line
\* ending met from left to right replaced by one marker, a carriage return
\* followed by a line feed (or their escaped forms) counting as one.
C16_WindowsEOLOneBreak ==
    textPC = "done" => textOutput = ScanLineEndings(textInput)

\* a text with a literal and an escaped Windows line ending has been
\* converted to a text with two markers
C16_Witness ==
    /\ textPC = "done"
    /\ textInput = <<"a">> \o windowsEOLActual \o windowsEOLEscaped
    /\ textOutput = <<"a">> \o breakStatement \o breakStatement
    /\ CountBreaks(textOutput) = 2

\* C17: the result of ConvertEOLToBreak holds no carriage return, no line
\* feed and no escaped carriage return or line feed.
C17_NoLineEndingLeft ==
    textPC = "done" => ~HasLineEnding(textOutput)

\* a text mixing a literal Windows line ending with an escaped line feed
\* has been converted
C17_Witness ==
    /\ textPC = "done"
    /\ Contains(textInput, windowsEOLActual)
    /\ Contains(textInput, unixEOLEscaped)
    /\ ~HasLineEnding(textOutput)
    /\ CountBreaks(textOutput) = 2

----------------------------------------------------------------------------
(* Claims about -convert-eol in main of src/main.go, checked under          *)
(* SpecMainFair                                                             *)

\* C18 as stated: with -convert-eol the text of the card main builds holds
\* no carriage return and no line feed, every Windows, Mac and Unix newline
\* of the message being replaced by one marker; without -convert-eol the
\* card text is the message text as given, followed by the trailer.
C18_Original ==
    [][ mainPC = "build"
          => IF convertEOL
             THEN /\ ~Contains(msgCard'.Text, macEOLActual)
                  /\ ~Contains(msgCard'.Text, unixEOLActual)
                  /\ msgCard'.Text
                       = ScanLineEndings(message.MessageText) \o messageTrailer
             ELSE msgCard'.Text = message.MessageText \o messageTrailer
      ]_vars

\* with -convert-eol set, main is about to send a card whose text still
\* holds the line feed of the message
C18_Witness ==
    /\ mainPC = "send"
    /\ convertEOL
    /\ Contains(message.MessageText, unixEOLActual)
    /\ Contains(msgCard.Text, unixEOLActual)

----------------------------------------------------------------------------
(* Claims about teams.FormatAsCodeBlock and teams.FormatAsCodeSnippet,      *)
(* checked under SpecFormat                                                 *)

\* a call of one of the two functions has returned
Formatted ==
    /\ textPC = "done"
    /\ textCall \in {"FormatAsCodeBlock", "FormatAsCodeSnippet"}

\* the prefix and the suffix of the function called
CallPrefix ==
    IF textCall = "FormatAsCodeBlock"
    THEN msTeamsCodeBlockSubmissionPrefix
    ELSE msTeamsCodeSnippetSubmissionPrefix

CallSuffix ==
    IF textCall = "FormatAsCodeBlock"
    THEN msTeamsCodeBlockSubmissionSuffix
    ELSE msTeamsCodeSnippetSubmissionSuffix

\* a quoted text without its outer double quotes
Unquoted(text) == SubSeq(text, 2, Len(text) - 1)

\* the content C19 describes: the indented form of valid JSON, else the
\* JSON-escaped input without its outer double quotes
ClaimedContent(input) ==
    IF Valid(input) THEN Indent(input).out ELSE Unquoted(Marshal(input))

\* C19 as stated: for every non-empty input both functions succeed and
\* return prefix + content + suffix, content being the indented form of the
\* input when it is valid JSON and else the JSON-escaped input without its
\* outer double quotes.
C19_Original ==
    (Formatted /\ textInput # <<>>)
        => /\ textErr = NoError
           /\ textOutput = CallPrefix \o ClaimedContent(textInput) \o CallSuffix

\* FormatAsCodeBlock has returned the suffix alone, without an error, for
\* a JSON string followed by white space
C19_Witness ==
    /\ Formatted
    /\ textCall = "FormatAsCodeBlock"
    /\ textInput = <<"\"","a","\""," ">>
    /\ textErr = NoError
    /\ textOutput = msTeamsCodeBlockSubmissionSuffix

\* C20: given the empty string both functions return the empty string and
\* the error of their own first test, formatAsCode and its error not being
\* reached.
C20_EmptyInputRejected ==
    (Formatted /\ textInput = <<>>)
        => /\ textOutput = <<>>
           /\ textErr = Err("EmptyInput")

\* FormatAsCodeBlock has refused the empty string
C20_Witness ==
    /\ Formatted
    /\ textCall = "FormatAsCodeBlock"
    /\ textInput = <<>>
    /\ textOutput = <<>>
    /\ textErr.kind = "EmptyInput"

\* a call of one of the two best-effort functions has returned
TriedToFormat ==
    /\ textPC = "done"
    /\ textCall \in {"TryToFormatAsCodeBlock", "TryToFormatAsCodeSnippet"}

\* what the strict function of the best-effort function called returns
StrictReturned ==
    IF textCall = "TryToFormatAsCodeBlock"
    THEN FormatAsCodeBlock(textInput)
    ELSE FormatAsCodeSnippet(textInput)

\* the strict result when there is no error, else the input
ResultOrInput(returned, input) ==
    IF returned.err = NoError THEN returned.out ELSE input

\* C21: TryToFormatAsCodeBlock and TryToFormatAsCodeSnippet report no
\* error; they return the result of the strict function when it succeeds
\* and the unchanged input when it returns an error.
C21_TryReturnsResultOrInput ==
    TriedToFormat
        => /\ textErr = NoError
           /\ textOutput = ResultOrInput(StrictReturned, textInput)

\* TryToFormatAsCodeBlock has returned the formatted text of hello, which
\* differs from its input
C21_Witness ==
    /\ TriedToFormat
    /\ textCall = "TryToFormatAsCodeBlock"
    /\ textInput = <<"h","e","l","l","o">>
    /\ textOutput = msTeamsCodeBlockSubmissionPrefix \o textInput
                       \o msTeamsCodeBlockSubmissionSuffix

\* C22: formatAsCode does not index or slice out of range for a non-empty
\* input: neither strict function ends in a panic, whatever the length of
\* the formatted text and whichever of its ends hold a double quote.
C22_NoOutOfRange ==
    (Formatted /\ textInput # <<>>) => textErr.kind # "Panic"

\* FormatAsCodeSnippet has formatted the two-character JSON string "":
\* the slice [1:1] of the formatted text is empty and nothing panics
C22_Witness ==
    /\ Formatted
    /\ textCall = "FormatAsCodeSnippet"
    /\ textInput = <<"\"", "\"">>
    /\ textErr = NoError
    /\ textOutput = msTeamsCodeSnippetSubmissionPrefix
                       \o msTeamsCodeSnippetSubmissionSuffix

----------------------------------------------------------------------------
(* The message card of main, checked under SpecMainFair *)

\* the text main puts on the card for the -message value text
CardText(text) ==
    (IF convertEOL THEN convertEOLToBreak(text) ELSE text) \o messageTrailer

\* C23: the card main builds has the validated -title as its Title, the
\* validated -color as its ThemeColor and, as its Text, the -message text,
\* converted by convertEOLToBreak when -convert-eol is set, immediately
\* followed by the trailer; the trailer holds the tool name, the source URL
\* and the version; sendMessage is handed that card.
C23_CardContents ==
    [][ /\ mainPC = "build"
          => /\ validateMessage(message) = NoError
             /\ msgCard'.Title = message.MessageTitle
             /\ msgCard'.ThemeColor = message.ThemeColor
             /\ msgCard'.Text = CardText(message.MessageText)
             /\ Contains(messageTrailer, myAppName)
             /\ Contains(messageTrailer, myAppURL)
             /\ Contains(messageTrailer, version)
        /\ mainPC = "send"
          => /\ msgCard' = msgCard
             /\ sent' = Append(sent, [webhookURL |-> webhook.WebhookURL,
                                      card |-> msgCard])
      ]_vars

\* main has handed sendMessage a card with the title Test and the text
\* Hello followed by the trailer
C23_Witness ==
    /\ Len(sent) = 1
    /\ sent[1].card.Title = <<"T","e","s","t">>
    /\ sent[1].card.ThemeColor = defaultMessageThemeColor
    /\ sent[1].card.Text = <<"H","e","l","l","o">> \o messageTrailer

----------------------------------------------------------------------------
(* MessageTrailer, checked under SpecTrailer *)

\* MessageTrailer has returned
TrailerMade == textPC = "done" /\ textCall = "MessageTrailer"

\* text holds white space only
IsBlank(text) == \A i \in 1..Len(text) : text[i] \in {" ", "\t", "\n", "\r"}

\* C24: the trailer always holds the tool name, the version and the source
\* URL; it holds "on behalf of" followed by the sender exactly when the
\* sender is not blank, and for a blank sender "on behalf of" is absent.
C24_TrailerContents ==
    TrailerMade
        => /\ Contains(textOutput, myAppName)
           /\ Contains(textOutput, version)
           /\ Contains(textOutput, myAppURL)
           /\ Contains(textOutput, brandingTextSuffix \o <<" ">> \o textInput)
                 <=> ~IsBlank(textInput)
           /\ IsBlank(textInput) => ~Contains(textOutput, brandingTextSuffix)

\* MessageTrailer has returned for a sender of white space only, without
\* the credit
C24_Witness ==
    /\ TrailerMade
    /\ textInput = <<" ", "\t">>
    /\ ~Contains(textOutput, brandingTextSuffix)
    /\ Contains(textOutput, brandingTextPrefix)

----------------------------------------------------------------------------
(* The Set methods of the two flag types, checked under SpecFlags *)

\* the comma-separated items of the value Set was given
ItemsGiven(value) == Split(value, ",")

\* after is before with exactly one entry appended at the end
GrewByOne(before, after) ==
    /\ ~after.nil
    /\ Len(after.elems) = Len(before.elems) + 1
    /\ SubSeq(after.elems, 1, Len(before.elems)) = before.elems

\* the step is a call of one of the two Set methods
SetCalled ==
    /\ cfgPC = "start"
    /\ textCall' \in {"targetURLsStringFlag.Set", "userMentionsStringFlag.Set"}

----------------------------------------------------------------------------
(* NewConfig and the version flag, checked under SpecConfig *)

\* C26: with the version flag set NewConfig returns the configuration and
\* ErrVersionRequested without calling Validate: the error is no
\* validation error and flag.Usage has not been called, whatever the other
\* flags hold.
C26_VersionSkipsValidate ==
    (cfgPC = "done" /\ cfg.ShowVersion)
        => /\ cfgErr = Err("VersionRequested")
           /\ cfgReturned = PointerTo(cfg)
           /\ ~cfgUsage

\* NewConfig has returned for -version together with -silent and -verbose,
\* no title and no webhook URL, flags that Validate refuses
C26_Witness ==
    /\ cfgPC = "done"
    /\ cfg.ShowVersion
    /\ cfg.SilentOutput /\ cfg.VerboseOutput
    /\ cfg.MessageTitle = <<>>
    /\ cfg.WebhookURL = <<>>
    /\ cfgErr.kind = "VersionRequested"
    /\ ~cfgReturned.nil

----------------------------------------------------------------------------
(* Further claims about teams.ValidateWebhook, checked under SpecWebhook *)

\* /webhook/{36}@{36}/IncomingWebhook/{32}/{36}, "id" standing for one
\* character of an id segment
DocumentedPath ==
    <<"/","w","e","b","h","o","o","k","/">>
      \o [i \in 1..GUIDLen |-> "id"] \o <<"@">> \o [i \in 1..GUIDLen |-> "id"]
      \o <<"/","I","n","c","o","m","i","n","g","W","e","b","h","o","o","k","/">>
      \o [i \in 1..TokenLen |-> "id"] \o <<"/">> \o [i \in 1..GUIDLen |-> "id"]

\* path has the documented form, its id segments of letters, digits and
\* hyphens
IsDocumentedPath(path) ==
    /\ Len(path) = Len(DocumentedPath)
    /\ \A i \in 1..Len(path) :
         IF DocumentedPath[i] = "id"
         THEN path[i] = "-" \/ IsLetter(path[i]) \/ IsDigit(path[i])
         ELSE path[i] = DocumentedPath[i]

\* url is one of the two hosts, dots included, followed by a documented path
IsDocumentedURL(url) ==
    \E p \in AcceptedPrefixes :
        HasPrefix(url, p) /\ IsDocumentedPath(From(url, Len(p) + 1))

\* C27: ValidateWebhook accepts a URL exactly when it is
\* https://outlook.office.com or https://outlook.office365.com followed by
\* /webhook/{36}@{36}/IncomingWebhook/{32}/{36}; a URL on another host is
\* refused even when the regular expression, whose dots match any
\* character, matches it.
C27_AcceptsDocumentedURLsOnly ==
    vwPC = "done" => (vwErr = NoError <=> IsDocumentedURL(webhookURL))

\* a URL on the host outlookxoffice.com that the regular expression matches
\* has been refused by the prefix check
C27_Witness ==
    /\ vwPC = "done"
    /\ HasPrefix(webhookURL, <<"h","t","t","p","s",":","/","/","o","u","t","l","o","o","k","x","o","f","f","i","c","e",".","c","o","m","/">>)
    /\ MatchString(validWebhookURLRegex, webhookURL)
    /\ vwErr.kind = "UnrecognizedHost"

\* C28: the length check does not change what is accepted: a URL it
\* refuses is refused by the prefix check or by the pattern check too, and
\* ValidateWebhook accepts exactly the URLs that pass those two checks.
C28_LengthCheckRedundant ==
    vwPC = "done"
        => /\ validateWebhookLength(webhookURL) # NoError
                => \/ validateWebhookURLPrefix(webhookURL) # NoError
                   \/ validateWebhookURLRegex(webhookURL) # NoError
           /\ vwErr = NoError
                <=> /\ validateWebhookURLPrefix(webhookURL) = NoError
                    /\ validateWebhookURLRegex(webhookURL) = NoError

\* the URL that is exactly the prefix has been refused by the length check;
\* the prefix check passes it and the pattern check refuses it
C28_Witness ==
    /\ vwPC = "done"
    /\ webhookURL = webhookURLOfficecomPrefix
    /\ vwErr.kind = "TooShort"
    /\ validateWebhookURLPrefix(webhookURL) = NoError
    /\ validateWebhookURLRegex(webhookURL).kind = "PatternMismatch"

\* the stage at which a validator stopped
Stage(err) ==
    CASE err.kind = "nil" -> "none"
      [] err.kind = "TooShort" -> "length"
      [] err.kind \in {"ParseError", "UnrecognizedHost"} -> "prefix"
      [] err.kind = "PatternMismatch" -> "pattern"
      [] OTHER -> "label"

\* -team and -channel values that are not empty
NonEmptyLabels == { l \in MainLabels \cup {defaultTeamName} : l # <<>> }

\* C29: for non-empty team and channel labels validateWebhook of main.go
\* returns nil exactly when teams.ValidateWebhook does, and otherwise the
\* two stop at the same check: length, prefix or pattern.
C29_ValidatorsAgree ==
    vwPC = "done"
        => \A team \in NonEmptyLabels, channel \in NonEmptyLabels :
              Stage(validateWebhook([Team |-> team, Channel |-> channel,
                                     WebhookURL |-> webhookURL]))
                = Stage(vwErr)

\* a URL on another host has been refused by teams.ValidateWebhook at the
\* prefix check, where validateWebhook of main.go refuses it too
C29_Witness ==
    /\ vwPC = "done"
    /\ HasPrefix(webhookURL, <<"h","t","t","p","s",":","/","/","e","x","a","m","p","l","e",".","c","o","m","/">>)
    /\ vwErr.kind = "UnrecognizedHost"
    /\ validateWebhook([Team |-> <<"o","p","s">>, Channel |-> <<"o","p","s">>,
                        WebhookURL |-> webhookURL]).kind = "UnrecognizedHost"

====
